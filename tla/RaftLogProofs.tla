----------------------------- MODULE RaftLogProofs -----------------------------
(***************************************************************************)
(* The two groups of lemmas on which the proofs about Raft rest.           *)
(*                                                                         *)
(* The first says what the operators of RaftNode compute, for every value  *)
(* of the constants.  Nearly all of them say of an operator that it keeps  *)
(* a node a node, that it marks the node dirty whenever it changes durable *)
(* state, and what it does to the term, the vote and the role.             *)
(*                                                                         *)
(* The second is why Raft never loses a committed entry, told without      *)
(* nodes or messages.  The argument is about the history of an execution,  *)
(* of which the nodes keep only a part: logs are compacted, leaders are    *)
(* forgotten.  A history is a value, and the events of the cluster make    *)
(* one history from another in four ways: a server reaches a newer term    *)
(* (Raised), it takes over entries of the leader of its term (Took), it is *)
(* elected (Elevated), and a leader appends an entry (Extended).  Each     *)
(* keeps a history sound, and no sound history has two leaders that        *)
(* disagree on what a majority held.  Module RaftSafetyProofs shows that   *)
(* every reachable state of the cluster has a sound history.               *)
(***************************************************************************)
EXTENDS RaftNode, TLAPS, FiniteSetTheorems, SequenceTheorems, WellFoundedInduction

-----------------------------------------------------------------------------
(* Extrema and logs *)

\* A non-empty set of numbers has a least element, and Smallest picks it.
LEMMA SmallestType ==
  ASSUME NEW S \in SUBSET Nat, S # {}
  PROVE  /\ Smallest(S) \in S
         /\ \A y \in S : Smallest(S) <= y
<1> DEFINE R == {ss \in Nat \X Nat : ss[1] < ss[2]}
<1>0. IsWellFoundedOn(R, Nat)
  BY NatLessThanWellFounded DEF OpToRel
<1>1. PICK x \in S : \A y \in S : ~(<<y, x>> \in R)
  BY <1>0, WFMin, Zenon
<1>2. ASSUME NEW y \in S PROVE x <= y
  <2>1. x \in Nat /\ y \in Nat
    OBVIOUS
  <2>2. ~(<<y, x>> \in R)
    BY <1>1
  <2>3. ~(y < x)
    BY <2>1, <2>2
  <2> QED BY <2>1, <2>3
<1> QED
  BY <1>2 DEF Smallest

\* A non-empty bounded set of numbers has a greatest element, and Largest picks it.
LEMMA LargestType ==
  ASSUME NEW S \in SUBSET Nat, S # {}, NEW b \in Nat, \A y \in S : y <= b
  PROVE  /\ Largest(S) \in S
         /\ \A y \in S : y <= Largest(S)
<1> DEFINE T == {k \in Nat : b - k \in S}
<1>1. T \in SUBSET Nat /\ T # {}
  <2>1. PICK y \in S : TRUE
    OBVIOUS
  <2>2. b - y \in Nat /\ b - (b - y) = y
    BY <2>1
  <2> QED BY <2>2
<1>2. /\ Smallest(T) \in T
      /\ \A k \in T : Smallest(T) <= k
  BY <1>1, SmallestType
<1> DEFINE x == b - Smallest(T)
<1>3. x \in S /\ Smallest(T) \in Nat
  BY <1>2
<1>4. ASSUME NEW y \in S PROVE y <= x
  <2>1. b - y \in Nat /\ b - (b - y) = y
    OBVIOUS
  <2>2. b - y \in T
    BY <2>1
  <2>3. Smallest(T) <= b - y
    BY <2>2, <1>2
  <2> HIDE DEF T
  <2> QED BY <2>1, <2>3, <1>3
<1> HIDE DEF x
<1> QED BY <1>3, <1>4 DEF Largest

\* The helpers last_index, last_term, term_at and entry_at stay within their types, and
\* term_at answers with a real term for every index that the log holds.
LEMMA LogFacts ==
  ASSUME NEW n \in NodeState
  PROVE  /\ Len(n.log) \in Nat
         /\ LastIndex(n) \in Nat
         /\ n.snapshotIndex <= LastIndex(n)
         /\ LastTerm(n) \in TermOrNone
         /\ \A k \in Int : TermAt(n, k) \in TermOrNone
         /\ \A k \in n.snapshotIndex + 1 .. LastIndex(n) :
              /\ TermAt(n, k) \in Nat
              /\ CommandAt(n, k) \in Command
<1>0. n.snapshotIndex \in Nat /\ n.snapshotTerm \in TermOrNone /\ n.log \in Seq(LogEntry)
  BY DEF NodeState
<1>1. Len(n.log) \in Nat /\ (n.log # <<>> => Len(n.log) # 0)
  BY <1>0
<1>2. \A j \in 1 .. Len(n.log) : n.log[j] \in LogEntry
  BY <1>0
<1>3. \A e \in LogEntry : e.term \in Nat /\ e.cmd \in Command
  BY DEF LogEntry
<1>4. LastIndex(n) \in Nat /\ n.snapshotIndex <= LastIndex(n)
  BY <1>0, <1>1 DEF LastIndex
<1>5. LastTerm(n) \in TermOrNone
  BY <1>0, <1>1, <1>2, <1>3 DEF LastTerm, TermOrNone
<1>6. ASSUME NEW k \in n.snapshotIndex + 1 .. LastIndex(n)
      PROVE  /\ TermAt(n, k) = n.log[k - n.snapshotIndex].term
             /\ TermAt(n, k) \in Nat
             /\ CommandAt(n, k) \in Command
  <2>1. k - n.snapshotIndex \in 1 .. Len(n.log) /\ k # n.snapshotIndex /\ HasIndex(n, k)
    BY <1>0, <1>1 DEF LastIndex, HasIndex
  <2>2. n.log[k - n.snapshotIndex] \in LogEntry
    BY <2>1, <1>2
  <2>3. n.log[k - n.snapshotIndex].term \in Nat /\ n.log[k - n.snapshotIndex].cmd \in Command
    BY <2>2, <1>3
  <2> QED BY <2>1, <2>3 DEF TermAt, CommandAt
<1>7. ASSUME NEW k \in Int PROVE TermAt(n, k) \in TermOrNone
  <2>1. CASE ~HasIndex(n, k)
    BY <2>1 DEF TermAt, TermOrNone
  <2>2. CASE k = n.snapshotIndex
    BY <2>2, <1>0, <1>4 DEF TermAt, TermOrNone, HasIndex
  <2>3. CASE HasIndex(n, k) /\ k # n.snapshotIndex
    <3>1. k \in n.snapshotIndex + 1 .. LastIndex(n)
      BY <2>3, <1>0, <1>4 DEF HasIndex
    <3> QED BY <3>1, <1>6 DEF TermOrNone
  <2> QED BY <2>1, <2>2, <2>3
<1> QED BY <1>1, <1>4, <1>5, <1>6, <1>7

\* The default of next_index.get makes next_index positive for every server.
LEMMA NextIndexType ==
  ASSUME NEW n \in NodeState, NEW p \in Server
  PROVE  NextIndex(n, p) \in Nat \ {0}
<1>1. n.nextIndex[p] \in Nat
  BY DEF NodeState
<1> QED BY <1>1, LogFacts DEF NextIndex

-----------------------------------------------------------------------------
(* Majorities *)

\* A majority of the initial members.
Electors(S) == Cardinality(S) >= Cardinality(InitialMembers) \div 2 + 1

\* Any two of them meet.
LEMMA ElectorsMeet ==
  ASSUME NEW Q \in SUBSET InitialMembers, NEW R \in SUBSET InitialMembers,
         Electors(Q), Electors(R)
  PROVE  Q \cap R # {}
<1>1. IsFiniteSet(InitialMembers) /\ IsFiniteSet(Q) /\ IsFiniteSet(R)
  BY ServerAssumption, FS_Subset
<1>2. Cardinality(Q) \in Nat /\ Cardinality(R) \in Nat /\ Cardinality(InitialMembers) \in Nat
  BY <1>1, FS_CardinalityType
<1>3. Cardinality(Q) + Cardinality(R) > Cardinality(InitialMembers)
  BY <1>2 DEF Electors
<1> QED BY <1>1, <1>3, FS_MajoritiesIntersect

-----------------------------------------------------------------------------
(* Relations between a node and what an operator makes of it *)

\* A node whose state machine is not behind its snapshot.
Sane(n) == n \in NodeState /\ n.snapshotIndex <= n.lastApplied

\* Nothing changes but the members and the leader's bookkeeping.
Tracked(n, a) ==
  /\ a.log = n.log /\ a.snapshotIndex = n.snapshotIndex
  /\ a.snapshotTerm = n.snapshotTerm /\ a.snapshotData = n.snapshotData
  /\ a.snapshotMembers = n.snapshotMembers
  /\ a.currentTerm = n.currentTerm /\ a.votedFor = n.votedFor
  /\ a.role = n.role /\ a.leaderId = n.leaderId /\ a.votes = n.votes
  /\ a.commitIndex = n.commitIndex /\ a.lastApplied = n.lastApplied
  /\ a.dirty = n.dirty

\* A change of durable state is marked dirty, and a mark is not lost.
Persists(n, a) ==
  /\ n.dirty => a.dirty
  /\ a.dirty \/ Durable(a) = Durable(n)

\* The term and the vote stay; the role, the votes and the leader stay or are given up.
Keeps(n, a) ==
  /\ a.currentTerm = n.currentTerm
  /\ a.votedFor = n.votedFor
  /\ \/ a.role = n.role /\ a.votes = n.votes /\ a.leaderId = n.leaderId
     \/ a.role = Follower /\ a.leaderId = Nil

\* The vote is kept or, with a newer term, forgotten; the role is kept or given up.
Yields(n, a) ==
  /\ \/ a.currentTerm = n.currentTerm /\ a.votedFor = n.votedFor
     \/ a.currentTerm > n.currentTerm /\ a.votedFor = Nil
  /\ \/ a.role = Follower
     \/ a.role = n.role /\ a.votes = n.votes /\ a.currentTerm = n.currentTerm

\* The relations are reflexive and compose, so a handler that is a chain of operators
\* may be treated one operator at a time.
LEMMA RelationsCompose ==
  ASSUME NEW n, NEW a, NEW b
  PROVE  /\ Persists(n, a) /\ Persists(a, b) => Persists(n, b)
         /\ Keeps(n, a) /\ Keeps(a, b) => Keeps(n, b)
         /\ Persists(n, n) /\ Keeps(n, n)
         /\ Tracked(n, a) => Persists(n, a) /\ Keeps(n, a)
<1>1. Persists(n, a) /\ Persists(a, b) => Persists(n, b)
  BY DEF Persists
<1>2. Keeps(n, a) /\ Keeps(a, b) => Keeps(n, b)
  BY DEF Keeps
<1>3. Persists(n, n) /\ Keeps(n, n)
  BY DEF Persists, Keeps
<1>4. Tracked(n, a) => Persists(n, a) /\ Keeps(n, a)
  BY DEF Persists, Keeps, Tracked, Durable
<1> QED BY <1>1, <1>2, <1>3, <1>4

\* Keeping after yielding is yielding.
LEMMA YieldsCompose ==
  ASSUME NEW n \in NodeState, NEW a \in NodeState, NEW b \in NodeState
  PROVE  /\ Yields(n, a) /\ Keeps(a, b) => Yields(n, b)
         /\ Keeps(n, a) => Yields(n, a)
  BY DEF Yields, Keeps

-----------------------------------------------------------------------------
(* Configuration *)

\* set_members installs the members and leaves the log, term, vote and role alone.
LEMMA SetMembersFacts ==
  ASSUME NEW i, NEW n \in NodeState, NEW M \in Configuration
  PROVE  /\ SetMembers(i, n, M) \in NodeState
         /\ SetMembers(i, n, M).members = M
         /\ Tracked(n, SetMembers(i, n, M))
<1> DEFINE
      nxt == [p \in Server |-> IF p \in M \ {i} THEN NextIndex(n, p) ELSE 0]
      mat == [p \in Server |-> IF p \in M \ {i} THEN n.matchIndex[p] ELSE 0]
      snt == [p \in Server |-> IF p \in M \ {i} THEN n.sentUpto[p] ELSE 0]
<1>1. CASE n.role # Leader
  <2>1. SetMembers(i, n, M) = [n EXCEPT !.members = M]
    BY <1>1 DEF SetMembers
  <2> QED BY <2>1, ZenonT(60) DEF NodeState, Tracked
<1>2. CASE n.role = Leader
  <2>1. SetMembers(i, n, M) = [n EXCEPT !.members = M, !.nextIndex = nxt,
                                        !.matchIndex = mat, !.sentUpto = snt]
    BY <1>2, Zenon DEF SetMembers
  <2>2. nxt \in [Server -> Nat]
    BY NextIndexType
  <2>3. mat \in [Server -> Nat] /\ snt \in [Server -> Nat]
    BY DEF NodeState
  <2> HIDE DEF nxt, mat, snt
  <2>4. SetMembers(i, n, M) \in NodeState
    BY <2>1, <2>2, <2>3, ZenonT(60) DEF NodeState
  <2> QED BY <2>1, <2>4, ZenonT(60) DEF NodeState, Tracked
<1> QED BY <1>1, <1>2

\* A log holds configuration entries only when membership changes are enabled, and the
\* configuration they lead to is one.
LEMMA ConfigFacts ==
  ASSUME NEW es \in Seq(LogEntry)
  PROVE  /\ ConfigPositions(es) \in SUBSET (1 .. Len(es))
         /\ ConfigPositions(es) # {} =>
              MembershipChanges /\ Largest(ConfigPositions(es)) \in 1 .. Len(es)
         /\ \A M \in Configuration : MembershipChanges => ConfigAfter(M, es) \in Configuration
<1>1. ConfigPositions(es) \in SUBSET (1 .. Len(es)) /\ Len(es) \in Nat
  BY DEF ConfigPositions
<1>2. ASSUME ConfigPositions(es) # {}
      PROVE  Largest(ConfigPositions(es)) \in ConfigPositions(es)
  <2>1. ConfigPositions(es) \in SUBSET Nat /\ \A k \in ConfigPositions(es) : k <= Len(es)
    BY <1>1
  <2> QED BY <2>1, <1>1, <1>2, LargestType
<1>3. ASSUME NEW k \in ConfigPositions(es)
      PROVE  MembershipChanges
  <2>1. es[k] \in LogEntry /\ IsConfig(es[k].cmd)
    BY <1>1 DEF ConfigPositions
  <2>2. es[k].cmd \in Command /\ es[k].cmd.op \in {"add", "remove"}
    BY <2>1 DEF LogEntry, IsConfig
  <2> QED BY <2>2 DEF Command, NOOP, PutCommand
<1>4. \A M : ConfigAfter(M, es) \in SUBSET Server
  BY DEF ConfigAfter
<1> QED BY <1>1, <1>2, <1>3, <1>4 DEF Configuration

\* apply_config_entry leaves the log, term, vote and role alone.
LEMMA ApplyConfigFacts ==
  ASSUME NEW i, NEW n \in NodeState, NEW base \in Nat, NEW es \in Seq(LogEntry)
  PROVE  /\ ApplyConfig(i, n, base, es) \in NodeState
         /\ Tracked(n, ApplyConfig(i, n, base, es))
<1>1. CASE ConfigPositions(es) = {}
  BY <1>1 DEF ApplyConfig, Tracked
<1>2. CASE ConfigPositions(es) # {}
  <2> DEFINE M == ConfigAfter(n.members, es)
             c == base + Largest(ConfigPositions(es))
  <2>1. ApplyConfig(i, n, base, es) = [SetMembers(i, n, M) EXCEPT !.configIndex = c]
    BY <1>2 DEF ApplyConfig
  <2>2. M \in Configuration
    BY <1>2, ConfigFacts DEF NodeState
  <2>3. c \in Nat
    BY <1>2, ConfigFacts
  <2> HIDE DEF M, c
  <2>4. SetMembers(i, n, M) \in NodeState /\ Tracked(n, SetMembers(i, n, M))
    BY <2>2, SetMembersFacts
  <2>5. ApplyConfig(i, n, base, es) \in NodeState
    BY <2>1, <2>3, <2>4, ZenonT(60) DEF NodeState
  <2> QED BY <2>1, <2>4, <2>5, ZenonT(60) DEF NodeState, Tracked
<1> QED BY <1>1, <1>2

\* rebuild_config leaves the log, term, vote and role alone.
LEMMA RebuildConfigFacts ==
  ASSUME NEW i, NEW n \in NodeState
  PROVE  /\ RebuildConfig(i, n) \in NodeState
         /\ Tracked(n, RebuildConfig(i, n))
<1> DEFINE r == SetMembers(i, n, n.snapshotMembers)
           s == [r EXCEPT !.configIndex = 0]
<1>1. r \in NodeState /\ Tracked(n, r)
  BY SetMembersFacts DEF NodeState
<1> HIDE DEF r
<1>2. s \in NodeState
  BY <1>1, ZenonT(60) DEF NodeState
<1>3. Tracked(n, s)
  BY <1>1 DEF NodeState, Tracked
<1>4. n.snapshotIndex \in Nat /\ n.log \in Seq(LogEntry)
  BY DEF NodeState
<1>5. RebuildConfig(i, n) = ApplyConfig(i, s, n.snapshotIndex, n.log)
  BY DEF RebuildConfig, r
<1> HIDE DEF s
<1>6. /\ ApplyConfig(i, s, n.snapshotIndex, n.log) \in NodeState
      /\ Tracked(s, ApplyConfig(i, s, n.snapshotIndex, n.log))
  BY <1>2, <1>4, ApplyConfigFacts
<1> QED BY <1>3, <1>5, <1>6 DEF Tracked

-----------------------------------------------------------------------------
(* Role transitions *)

\* step_down takes the newer term, forgets the vote of the older one and marks that dirty.
LEMMA StepDownFacts ==
  ASSUME NEW n \in NodeState, NEW t \in Nat
  PROVE  LET a == StepDown(n, t)
         IN /\ a \in NodeState
            /\ a.currentTerm = Larger(t, n.currentTerm)
            /\ a.votedFor = IF t > n.currentTerm THEN Nil ELSE n.votedFor
            /\ a.role = Follower /\ a.leaderId = Nil /\ a.votes = {}
            /\ a.log = n.log /\ a.snapshotIndex = n.snapshotIndex
            /\ a.lastApplied = n.lastApplied /\ a.commitIndex = n.commitIndex
            /\ Persists(n, a)
<1> DEFINE a == StepDown(n, t)
           term == Larger(t, n.currentTerm)
           vote == IF t > n.currentTerm THEN Nil ELSE n.votedFor
           drt == n.dirty \/ t > n.currentTerm
<1>1. a = [n EXCEPT !.currentTerm = term, !.votedFor = vote, !.role = Follower,
                    !.leaderId = Nil, !.votes = {}, !.preVotes = {},
                    !.pending = {}, !.pendingByReq = {}, !.dirty = drt]
  BY Zenon DEF StepDown
<1>2. term \in Nat /\ vote \in Server \cup {Nil} /\ drt \in BOOLEAN /\ n.currentTerm \in Nat
  BY DEF NodeState, Larger
<1>3. Follower \in Role
  BY DEF Role
<1>4. (~drt => term = n.currentTerm /\ vote = n.votedFor) /\ (n.dirty => drt)
  BY <1>2 DEF Larger
<1> HIDE DEF term, vote, drt, a
<1>5. a \in NodeState
  BY <1>1, <1>2, <1>3, ZenonT(60) DEF NodeState
<1>6. /\ a.currentTerm = term /\ a.votedFor = vote /\ a.dirty = drt
      /\ a.role = Follower /\ a.leaderId = Nil /\ a.votes = {}
      /\ a.log = n.log /\ a.snapshotIndex = n.snapshotIndex
      /\ a.snapshotTerm = n.snapshotTerm /\ a.snapshotData = n.snapshotData
      /\ a.snapshotMembers = n.snapshotMembers
      /\ a.lastApplied = n.lastApplied /\ a.commitIndex = n.commitIndex
  BY <1>1 DEF NodeState
<1>7. Persists(n, a)
  BY <1>4, <1>6 DEF Persists, Durable
<1> QED BY <1>5, <1>6, <1>7 DEF a, term, vote

\* step_down yields.
LEMMA StepDownYields ==
  ASSUME NEW n, Sane(n), NEW t \in Nat
  PROVE  Sane(StepDown(n, t)) /\ Persists(n, StepDown(n, t)) /\ Yields(n, StepDown(n, t))
<1> DEFINE d == StepDown(n, t)
<1>1. /\ d \in NodeState
      /\ d.currentTerm = Larger(t, n.currentTerm)
      /\ d.votedFor = IF t > n.currentTerm THEN Nil ELSE n.votedFor
      /\ d.role = Follower /\ d.leaderId = Nil /\ d.votes = {}
      /\ d.log = n.log /\ d.snapshotIndex = n.snapshotIndex
      /\ d.lastApplied = n.lastApplied /\ d.commitIndex = n.commitIndex
      /\ Persists(n, d)
  BY StepDownFacts, Zenon DEF Sane
<1>2. n.currentTerm \in Nat /\ n.snapshotIndex <= n.lastApplied
  BY DEF Sane, NodeState
<1> HIDE DEF d
<1>3. Sane(d) /\ Persists(n, d) /\ Yields(n, d)
  BY <1>1, <1>2 DEF Sane, Yields, Larger
<1> QED BY <1>3 DEF d

\* make_append answers with an AppendEntries or an InstallSnapshot of the leader's term.
LEMMA MakeAppendType ==
  ASSUME NEW i \in Server, NEW n \in NodeState, NEW p \in Server
  PROVE  /\ MakeAppend(i, n, p) \in AppendEntries \cup InstallSnapshot
         /\ MakeAppend(i, n, p).src = i
         /\ MakeAppend(i, n, p).dst = p
         /\ MakeAppend(i, n, p).term = n.currentTerm
         /\ SentUptoAfter(i, n, p) \in Nat
<1> DEFINE next == Larger(1, NextIndex(n, p))
           first == next - n.snapshotIndex
           last == Smaller(Len(n.log), first + MaxEntriesPerAppend - 1)
           es == SubSeq(n.log, first, last)
<1>0. next \in Nat \ {0}
  BY NextIndexType DEF Larger
<1>1. n.snapshotIndex \in Nat /\ n.currentTerm \in Nat
      /\ n.snapshotTerm \in TermOrNone /\ n.snapshotData \in Seq(Command)
      /\ n.members \in Configuration /\ n.commitIndex \in Nat
      /\ n.log \in Seq(LogEntry) /\ Len(n.log) \in Nat /\ n.sentUpto[p] \in Nat
  BY DEF NodeState
<1>2. CASE next <= n.snapshotIndex
  <2>1. MakeAppend(i, n, p) = InstallSnapshotMsg(i, p, n)
    BY <1>2 DEF MakeAppend
  <2>2. InstallSnapshotMsg(i, p, n) \in InstallSnapshot
    BY <1>1 DEF InstallSnapshotMsg, InstallSnapshot
  <2>3. SentUptoAfter(i, n, p) = Larger(n.sentUpto[p], n.snapshotIndex)
    BY <2>1 DEF SentUptoAfter, InstallSnapshotMsg
  <2> QED BY <1>1, <2>1, <2>2, <2>3 DEF InstallSnapshotMsg, Larger
<1>3. CASE ~(next <= n.snapshotIndex)
  <2> DEFINE m == AppendEntriesMsg(i, p, n, next - 1, es)
  <2>1. MakeAppend(i, n, p) = m
    BY <1>3, Zenon DEF MakeAppend
  <2>2. first \in Nat \ {0} /\ last \in Int /\ last <= Len(n.log)
    BY <1>0, <1>1, <1>3, ConfigAssumption, SMTT(30) DEF Smaller
  <2>3. es \in Seq(LogEntry)
    <3> HIDE DEF first, last
    <3>1. \A k \in first .. last : n.log[k] \in LogEntry
      BY <2>2, <1>1
    <3> QED BY <2>2, <3>1, SubSeqProperties
  <2>4. next - 1 \in Nat /\ TermAt(n, next - 1) \in TermOrNone /\ Len(es) \in Nat
    BY <1>0, <1>1, <2>3, LogFacts, SMTT(30)
  <2> HIDE DEF next, es
  <2>5. m \in AppendEntries
    BY <1>1, <2>3, <2>4 DEF AppendEntriesMsg, AppendEntries
  <2>6. SentUptoAfter(i, n, p) = Larger(n.sentUpto[p], next - 1 + Len(es))
    BY <2>1 DEF SentUptoAfter, AppendEntriesMsg
  <2> QED BY <1>1, <2>1, <2>4, <2>5, <2>6 DEF AppendEntriesMsg, Larger
<1> QED BY <1>2, <1>3

\* Sending moves the windows only.
LEMMA SentFacts ==
  ASSUME NEW i \in Server, NEW n \in NodeState, NEW P \in SUBSET Server
  PROVE  /\ Sent(i, n, P) \in NodeState
         /\ Tracked(n, Sent(i, n, P))
         /\ Sent(i, n, P).members = n.members
<1> DEFINE upto == [p \in Server |-> IF p \in P THEN SentUptoAfter(i, n, p) ELSE n.sentUpto[p]]
<1>1. Sent(i, n, P) = [n EXCEPT !.sentUpto = upto]
  BY Zenon DEF Sent
<1>2. upto \in [Server -> Nat]
  BY MakeAppendType DEF NodeState
<1> HIDE DEF upto
<1>3. Sent(i, n, P) \in NodeState
  BY <1>1, <1>2, ZenonT(90) DEF NodeState
<1> QED BY <1>1, <1>3 DEF NodeState, Tracked

\* become_candidate raises the term by one and votes for itself, marked dirty.
LEMMA CampaignFacts ==
  ASSUME NEW i \in Server, NEW n \in NodeState
  PROVE  LET c == Campaign(i, n)
         IN /\ c \in NodeState
            /\ c.currentTerm = n.currentTerm + 1 /\ c.votedFor = i
            /\ c.role = Candidate /\ c.leaderId = Nil /\ c.votes = {i}
            /\ c.dirty = TRUE /\ c.members = n.members /\ c.log = n.log
            /\ c.snapshotIndex = n.snapshotIndex /\ c.lastApplied = n.lastApplied
<1> DEFINE term == n.currentTerm + 1
           c == Campaign(i, n)
<1>1. c = [n EXCEPT !.currentTerm = term, !.role = Candidate, !.votedFor = i,
                    !.leaderId = Nil, !.votes = {i}, !.dirty = TRUE]
  BY Zenon DEF Campaign
<1>2. term \in Nat /\ Candidate \in Role /\ {i} \in SUBSET Server
  BY SMTT(30) DEF NodeState, Role
<1> HIDE DEF term, c
<1>3. c \in NodeState
  BY <1>1, <1>2, ZenonT(60) DEF NodeState
<1>4. /\ c.currentTerm = term /\ c.votedFor = i
      /\ c.role = Candidate /\ c.leaderId = Nil /\ c.votes = {i}
      /\ c.dirty = TRUE /\ c.members = n.members /\ c.log = n.log
      /\ c.snapshotIndex = n.snapshotIndex /\ c.lastApplied = n.lastApplied
  BY <1>1, SMTT(30) DEF NodeState
<1> QED BY <1>3, <1>4, Zenon DEF c, term

\* become_leader keeps term and vote, and marks its no-op dirty.
LEMMA ElectedFacts ==
  ASSUME NEW i \in Server, NEW n \in NodeState
  PROVE  LET e == Elected(i, n)
         IN /\ e \in NodeState
            /\ e.currentTerm = n.currentTerm /\ e.votedFor = n.votedFor
            /\ e.role = Leader /\ e.leaderId = i /\ e.votes = n.votes
            /\ e.members = n.members
            /\ e.snapshotIndex = n.snapshotIndex /\ e.lastApplied = n.lastApplied
            /\ Persists(n, e)
<1> DEFINE own == IF NoopOnElect THEN <<Entry(n.currentTerm, NOOP)>> ELSE <<>>
           nxt == [p \in Server |-> IF p \in Peers(i, n) THEN LastIndex(n) + 1 ELSE 0]
           zero == [p \in Server |-> 0]
           lg == n.log \o own
           drt == n.dirty \/ NoopOnElect
           e == Elected(i, n)
<1>1. e = [n EXCEPT !.role = Leader, !.leaderId = i, !.nextIndex = nxt,
                    !.matchIndex = zero, !.sentUpto = zero, !.pending = {},
                    !.pendingByReq = {}, !.log = lg, !.dirty = drt]
  BY Zenon DEF Elected
<1>2. nxt \in [Server -> Nat] /\ zero \in [Server -> Nat] /\ Leader \in Role
  BY LogFacts DEF Role
<1>3. lg \in Seq(LogEntry)
  <2>1. own \in Seq(LogEntry)
    <3>1. n.currentTerm \in Nat
      BY DEF NodeState
    <3>2. Entry(n.currentTerm, NOOP) \in LogEntry
      BY <3>1 DEF Entry, LogEntry, Command
    <3> QED BY <3>2
  <2>2. n.log \in Seq(LogEntry)
    BY DEF NodeState
  <2> QED BY <2>1, <2>2, ConcatProperties
<1>4. drt \in BOOLEAN /\ (n.dirty => drt) /\ (~drt => lg = n.log)
  <2>1. n.log \in Seq(LogEntry) /\ n.dirty \in BOOLEAN
    BY DEF NodeState
  <2>2. n.log \o <<>> = n.log
    BY <2>1, ConcatEmptySeq
  <2> QED BY <2>1, <2>2, ConfigAssumption
<1> HIDE DEF nxt, zero, lg, drt, e
<1>5. e \in NodeState
  BY <1>1, <1>2, <1>3, <1>4, ZenonT(60) DEF NodeState
<1>6. /\ e.currentTerm = n.currentTerm /\ e.votedFor = n.votedFor
      /\ e.role = Leader /\ e.leaderId = i /\ e.votes = n.votes
      /\ e.members = n.members /\ e.log = lg /\ e.dirty = drt
      /\ e.snapshotIndex = n.snapshotIndex /\ e.lastApplied = n.lastApplied
      /\ e.snapshotTerm = n.snapshotTerm /\ e.snapshotData = n.snapshotData
      /\ e.snapshotMembers = n.snapshotMembers
  BY <1>1, SMTT(30) DEF NodeState
<1>7. Persists(n, e)
  BY <1>4, <1>6 DEF Persists, Durable
<1> QED BY <1>5, <1>6, <1>7 DEF e

\* become_leader with its broadcast does the same.
LEMMA BecomeLeaderFacts ==
  ASSUME NEW i \in Server, NEW n \in NodeState
  PROVE  LET e == BecomeLeader(i, n)
         IN /\ e \in NodeState
            /\ e.currentTerm = n.currentTerm /\ e.votedFor = n.votedFor
            /\ e.role = Leader /\ e.leaderId = i /\ e.votes = n.votes
            /\ e.members = n.members
            /\ e.snapshotIndex = n.snapshotIndex /\ e.lastApplied = n.lastApplied
            /\ Persists(n, e)
<1>1. Peers(i, n) \in SUBSET Server
  BY ServerAssumption DEF Peers, NodeState, Configuration
<1> DEFINE e == Elected(i, n)
<1>2. e \in NodeState
  BY ElectedFacts
<1>3. /\ Sent(i, e, Peers(i, n)) \in NodeState
      /\ Tracked(e, Sent(i, e, Peers(i, n)))
      /\ Sent(i, e, Peers(i, n)).members = e.members
  BY <1>1, <1>2, SentFacts
<1>4. Persists(n, Sent(i, e, Peers(i, n)))
  BY <1>3, ElectedFacts, RelationsCompose
<1> QED BY <1>3, <1>4, ElectedFacts DEF BecomeLeader, Tracked

\* become_candidate ends as a candidate, or as a leader when one vote is a majority.
LEMMA BecomeCandidateFacts ==
  ASSUME NEW i \in Server, NEW n \in NodeState
  PROVE  LET c == BecomeCandidate(i, n)
         IN /\ c \in NodeState
            /\ c.currentTerm = n.currentTerm + 1 /\ c.votedFor = i
            /\ c.votes = {i} /\ c.dirty = TRUE
            /\ \/ c.role = Candidate /\ c.leaderId = Nil
               \/ c.role = Leader /\ c.leaderId = i /\ 1 >= Majority(n)
            /\ c.members = n.members
            /\ c.snapshotIndex = n.snapshotIndex /\ c.lastApplied = n.lastApplied
<1> DEFINE c == Campaign(i, n)
<1>1. /\ c \in NodeState
      /\ c.currentTerm = n.currentTerm + 1 /\ c.votedFor = i
      /\ c.role = Candidate /\ c.leaderId = Nil /\ c.votes = {i}
      /\ c.dirty = TRUE /\ c.members = n.members
      /\ c.snapshotIndex = n.snapshotIndex /\ c.lastApplied = n.lastApplied
  BY CampaignFacts, Zenon
<1>2. BecomeCandidate(i, n) = IF 1 >= Majority(n) THEN BecomeLeader(i, c) ELSE c
  BY Zenon DEF BecomeCandidate
<1> HIDE DEF c
<1>3. CASE 1 >= Majority(n)
  <2> DEFINE b == BecomeLeader(i, c)
  <2>1. /\ b \in NodeState
        /\ b.currentTerm = c.currentTerm /\ b.votedFor = c.votedFor
        /\ b.role = Leader /\ b.leaderId = i /\ b.votes = c.votes
        /\ b.members = c.members
        /\ b.snapshotIndex = c.snapshotIndex /\ b.lastApplied = c.lastApplied
        /\ Persists(c, b)
    BY <1>1, BecomeLeaderFacts, Zenon
  <2>2. b.dirty = TRUE
    BY <1>1, <2>1 DEF Persists, NodeState
  <2>3. BecomeCandidate(i, n) = b
    BY <1>2, <1>3
  <2> HIDE DEF b
  <2> QED BY <1>1, <1>3, <2>1, <2>2, <2>3
<1>4. CASE ~(1 >= Majority(n))
  <2>1. BecomeCandidate(i, n) = c
    BY <1>2, <1>4
  <2> QED BY <1>1, <2>1
<1> QED BY <1>3, <1>4

\* start_election with pre-vote on touches nothing durable.
LEMMA PollFacts ==
  ASSUME NEW i \in Server, NEW n, Sane(n)
  PROVE  LET p == Poll(i, n)
         IN /\ Sane(p) /\ Persists(n, p)
            /\ p.currentTerm = n.currentTerm /\ p.votedFor = n.votedFor
            /\ p.role = PreCandidate /\ p.members = n.members
<1> DEFINE term == n.currentTerm + 1
           p == Poll(i, n)
<1>0. n \in NodeState /\ n.snapshotIndex <= n.lastApplied
  BY DEF Sane
<1>1. p = [n EXCEPT !.role = PreCandidate, !.leaderId = Nil, !.preTerm = term,
                    !.preVotes = {i}]
  BY Zenon DEF Poll
<1>2. term \in Nat /\ PreCandidate \in Role /\ {i} \in SUBSET Server
  BY <1>0, SMTT(30) DEF NodeState, Role
<1> HIDE DEF term, p
<1>3. p \in NodeState
  BY <1>0, <1>1, <1>2, ZenonT(90) DEF NodeState
<1>4. /\ p.currentTerm = n.currentTerm /\ p.votedFor = n.votedFor
      /\ p.role = PreCandidate /\ p.members = n.members /\ p.log = n.log
      /\ p.snapshotIndex = n.snapshotIndex /\ p.snapshotTerm = n.snapshotTerm
      /\ p.snapshotData = n.snapshotData /\ p.snapshotMembers = n.snapshotMembers
      /\ p.lastApplied = n.lastApplied /\ p.dirty = n.dirty
  BY <1>0, <1>1, SMTT(30) DEF NodeState
<1>5. Sane(p) /\ Persists(n, p)
  BY <1>0, <1>3, <1>4 DEF Sane, Persists, Durable
<1> QED BY <1>4, <1>5 DEF p

\* A granted vote is marked dirty.
LEMMA VoteForFacts ==
  ASSUME NEW n, Sane(n), NEW x \in Server
  PROVE  LET v == VoteFor(n, x)
         IN /\ Sane(v) /\ Persists(n, v)
            /\ v.currentTerm = n.currentTerm /\ v.votedFor = x
            /\ v.role = n.role /\ v.votes = n.votes
<1> DEFINE v == VoteFor(n, x)
<1>0. n \in NodeState /\ n.snapshotIndex <= n.lastApplied
  BY DEF Sane
<1>1. v = [n EXCEPT !.votedFor = x, !.dirty = TRUE]
  BY Zenon DEF VoteFor
<1> HIDE DEF v
<1>2. v \in NodeState
  BY <1>0, <1>1, ZenonT(90) DEF NodeState
<1>3. /\ v.currentTerm = n.currentTerm /\ v.votedFor = x /\ v.dirty = TRUE
      /\ v.role = n.role /\ v.votes = n.votes
      /\ v.snapshotIndex = n.snapshotIndex /\ v.lastApplied = n.lastApplied
  BY <1>0, <1>1, SMTT(30) DEF NodeState
<1>4. Sane(v) /\ Persists(n, v)
  BY <1>0, <1>2, <1>3 DEF Sane, Persists
<1> QED BY <1>3, <1>4 DEF v

-----------------------------------------------------------------------------
(* Committing, applying and compacting *)

\* What apply_committed feeds to the state machine are commands of the log.
LEMMA HistoryType ==
  ASSUME NEW n, Sane(n), NEW k \in n.lastApplied .. LastIndex(n)
  PROVE  HistoryUpto(n, k) \in Seq(Command)
<1> DEFINE f == [j \in 1 .. k - n.lastApplied |-> CommandAt(n, n.lastApplied + j)]
<1>1. n \in NodeState /\ n.snapshotIndex <= n.lastApplied
  BY DEF Sane
<1>2. n.lastApplied \in Nat /\ n.snapshotIndex \in Nat /\ n.sm \in Seq(Command)
      /\ LastIndex(n) \in Nat
  BY <1>1, LogFacts DEF NodeState
<1>3. \A j \in 1 .. k - n.lastApplied : CommandAt(n, n.lastApplied + j) \in Command
  <2> TAKE j \in 1 .. k - n.lastApplied
  <2>1. n.lastApplied + j \in n.snapshotIndex + 1 .. LastIndex(n)
    BY <1>1, <1>2
  <2> QED BY <1>1, <2>1, LogFacts
<1>4. k - n.lastApplied \in Nat
  BY <1>2
<1>5. f \in Seq(Command)
  BY <1>3, <1>4
<1>6. HistoryUpto(n, k) = n.sm \o f
  BY Zenon DEF HistoryUpto
<1> HIDE DEF f
<1> QED BY <1>2, <1>5, <1>6, ConcatProperties

\* apply_committed keeps term and vote and gives up the role at most.
LEMMA AppliedFacts ==
  ASSUME NEW i \in Server, NEW n, Sane(n)
  PROVE  /\ Sane(Applied(i, n))
         /\ Persists(n, Applied(i, n))
         /\ Keeps(n, Applied(i, n))
<1>0. n \in NodeState /\ n.snapshotIndex <= n.lastApplied
  BY DEF Sane
<1>1. CASE ToApply(n) = {}
  <2>1. Applied(i, n) = n
    BY <1>1 DEF Applied
  <2> QED BY <2>1, RelationsCompose
<1>2. CASE ToApply(n) # {}
  <2> DEFINE done == {p \in n.pending : p.index \in ToApply(n)}
             top == Largest(ToApply(n))
             hist == HistoryUpto(n, top)
             pend == n.pending \ done
             byReq == {r \in n.pendingByReq :
                         \A p \in done : r.client # p.addr \/ r.seq # p.seq}
             a == [n EXCEPT !.lastApplied = top, !.sm = hist, !.pending = pend,
                            !.pendingByReq = byReq]
  <2>1. n.lastApplied \in Nat /\ n.commitIndex \in Nat /\ n.currentTerm \in Nat
        /\ LastIndex(n) \in Nat /\ n.snapshotIndex \in Nat
    BY <1>0, LogFacts DEF NodeState
  <2>2. top \in ToApply(n)
    <3>1. ToApply(n) \in SUBSET Nat /\ \A k \in ToApply(n) : k <= LastIndex(n)
      BY <2>1 DEF ToApply, Smaller
    <3> QED BY <3>1, <1>2, <2>1, LargestType
  <2>3. top \in n.lastApplied .. LastIndex(n) /\ top \in Nat
    BY <2>1, <2>2 DEF ToApply, Smaller
  <2>4. hist \in Seq(Command)
    BY <2>3, HistoryType
  <2>5. /\ pend \in SUBSET [index : Nat, addr : Nat, seq : Nat]
        /\ byReq \in SUBSET [client : Int, seq : Nat, index : Nat]
    BY <1>0, SMTT(30) DEF NodeState
  <2>6. Applied(i, n) = IF SelfRemovals(i, n) = {} THEN a ELSE StepDown(a, n.currentTerm)
    BY <1>2, Zenon DEF Applied
  <2> HIDE DEF top, hist, pend, byReq
  <2>7. a \in NodeState
    BY <1>0, <2>3, <2>4, <2>5, ZenonT(60) DEF NodeState
  <2>8. /\ a.lastApplied = top
        /\ a.log = n.log /\ a.snapshotIndex = n.snapshotIndex
        /\ a.snapshotTerm = n.snapshotTerm /\ a.snapshotData = n.snapshotData
        /\ a.snapshotMembers = n.snapshotMembers
        /\ a.currentTerm = n.currentTerm /\ a.votedFor = n.votedFor
        /\ a.role = n.role /\ a.leaderId = n.leaderId /\ a.votes = n.votes
        /\ a.dirty = n.dirty
    BY <1>0, SMTT(30) DEF NodeState
  <2> HIDE DEF a
  <2>9. Sane(a) /\ Persists(n, a) /\ Keeps(n, a)
    BY <1>0, <2>1, <2>3, <2>7, <2>8 DEF Sane, Persists, Keeps, Durable
  <2>10. CASE SelfRemovals(i, n) = {}
    BY <2>6, <2>9, <2>10
  <2>11. CASE SelfRemovals(i, n) # {}
    <3> DEFINE d == StepDown(a, n.currentTerm)
    <3>1. /\ d \in NodeState
          /\ d.currentTerm = Larger(n.currentTerm, a.currentTerm)
          /\ d.votedFor = IF n.currentTerm > a.currentTerm THEN Nil ELSE a.votedFor
          /\ d.role = Follower /\ d.leaderId = Nil /\ d.votes = {}
          /\ d.log = a.log /\ d.snapshotIndex = a.snapshotIndex
          /\ d.lastApplied = a.lastApplied /\ d.commitIndex = a.commitIndex
          /\ Persists(a, d)
      BY <2>1, <2>7, StepDownFacts, Zenon
    <3>2. Applied(i, n) = d
      BY <2>6, <2>11
    <3> HIDE DEF d
    <3>3. Keeps(n, d)
      BY <2>1, <2>8, <3>1 DEF Keeps, Larger
    <3>4. Sane(d)
      BY <2>9, <3>1 DEF Sane
    <3> QED BY <2>9, <3>1, <3>2, <3>3, <3>4, RelationsCompose
  <2> QED BY <2>10, <2>11
<1> QED BY <1>1, <1>2

\* take_snapshot moves the snapshot up to last_applied and marks that dirty.
LEMMA MaybeCompactFacts ==
  ASSUME NEW n, Sane(n)
  PROVE  /\ Sane(MaybeCompact(n))
         /\ Persists(n, MaybeCompact(n))
         /\ Keeps(n, MaybeCompact(n))
<1>0. n \in NodeState /\ n.snapshotIndex <= n.lastApplied
  BY DEF Sane
<1> DEFINE skip == SnapshotThreshold = 0 \/ n.lastApplied - n.snapshotIndex < SnapshotThreshold
<1>1. CASE skip
  <2>1. MaybeCompact(n) = n
    BY <1>1, Zenon DEF MaybeCompact
  <2> QED BY <2>1, RelationsCompose
<1>2. CASE ~skip
  <2> DEFINE term == TermAt(n, n.lastApplied)
             rest == SubSeq(n.log, n.lastApplied - n.snapshotIndex + 1, Len(n.log))
             a == [n EXCEPT !.snapshotIndex = n.lastApplied, !.snapshotTerm = term,
                            !.snapshotData = n.sm, !.snapshotMembers = n.members,
                            !.log = rest, !.dirty = TRUE]
  <2>1. n.lastApplied \in Nat /\ n.snapshotIndex \in Nat /\ n.sm \in Seq(Command)
        /\ n.members \in Configuration /\ n.log \in Seq(LogEntry)
    BY <1>0 DEF NodeState
  <2>2. term \in TermOrNone
    BY <1>0, <2>1, LogFacts
  <2>3. rest \in Seq(LogEntry)
    <3> DEFINE lo == n.lastApplied - n.snapshotIndex + 1
    <3>1. lo \in Nat \ {0} /\ Len(n.log) \in Nat
      BY <1>0, <2>1
    <3>2. \A k \in lo .. Len(n.log) : n.log[k] \in LogEntry
      BY <3>1, <2>1
    <3> HIDE DEF lo
    <3>3. SubSeq(n.log, lo, Len(n.log)) \in Seq(LogEntry)
      BY <2>1, <3>1, <3>2, SubSeqProperties
    <3> QED BY <3>3 DEF lo
  <2>4. MaybeCompact(n) = a
    BY <1>2, Zenon DEF MaybeCompact
  <2> HIDE DEF term, rest
  <2>5. a \in NodeState
    BY <1>0, <2>1, <2>2, <2>3, ZenonT(60) DEF NodeState
  <2>6. /\ a.lastApplied = n.lastApplied /\ a.snapshotIndex = n.lastApplied
        /\ a.currentTerm = n.currentTerm /\ a.votedFor = n.votedFor
        /\ a.role = n.role /\ a.leaderId = n.leaderId /\ a.votes = n.votes
        /\ a.dirty = TRUE
    BY <1>0, SMTT(30) DEF NodeState
  <2> HIDE DEF a
  <2> QED BY <2>1, <2>4, <2>5, <2>6 DEF Sane, Persists, Keeps
<1> QED BY <1>1, <1>2

\* What on_tick and on_message end with keeps term and vote and marks its changes dirty.
LEMMA ApplyCommittedFacts ==
  ASSUME NEW i \in Server, NEW n, Sane(n)
  PROVE  /\ Sane(ApplyCommitted(i, n))
         /\ Persists(n, ApplyCommitted(i, n))
         /\ Keeps(n, ApplyCommitted(i, n))
<1>1. /\ Sane(Applied(i, n)) /\ Persists(n, Applied(i, n)) /\ Keeps(n, Applied(i, n))
  BY AppliedFacts
<1>2. LET a == Applied(i, n)
      IN Sane(MaybeCompact(a)) /\ Persists(a, MaybeCompact(a)) /\ Keeps(a, MaybeCompact(a))
  BY <1>1, MaybeCompactFacts
<1> QED BY <1>1, <1>2, RelationsCompose DEF ApplyCommitted

\* advance_commit moves the commit index only.
LEMMA AdvanceCommitFacts ==
  ASSUME NEW i \in Server, NEW n \in NodeState
  PROVE  /\ AdvanceCommit(i, n) \in NodeState
         /\ AdvanceCommit(i, n).lastApplied = n.lastApplied
         /\ AdvanceCommit(i, n).snapshotIndex = n.snapshotIndex
         /\ Persists(n, AdvanceCommit(i, n))
         /\ Keeps(n, AdvanceCommit(i, n))
<1> DEFINE c == Largest(Agreed(i, n))
<1>1. CASE AdvanceCommit(i, n) = n
  BY <1>1, RelationsCompose
<1>2. CASE AdvanceCommit(i, n) # n
  <2>1. Agreed(i, n) # {} /\ AdvanceCommit(i, n) = [n EXCEPT !.commitIndex = c]
    BY <1>2 DEF AdvanceCommit
  <2>2. n.commitIndex \in Nat /\ LastIndex(n) \in Nat
    BY LogFacts DEF NodeState
  <2>3. c \in Nat
    <3>1. Agreed(i, n) \in SUBSET Nat /\ \A k \in Agreed(i, n) : k <= LastIndex(n)
      BY <2>2 DEF Agreed
    <3> QED BY <3>1, <2>1, <2>2, LargestType
  <2> HIDE DEF c
  <2>4. AdvanceCommit(i, n) \in NodeState
    BY <2>1, <2>3, ZenonT(90) DEF NodeState
  <2> QED BY <2>1, <2>4 DEF NodeState, Persists, Keeps, Durable
<1> QED BY <1>1, <1>2

-----------------------------------------------------------------------------
(* Following and leading *)

\* Hearing from a leader yields.
LEMMA RecogniseFacts ==
  ASSUME NEW n, Sane(n), NEW m, m.term \in Nat, m.src \in Server
  PROVE  /\ Sane(Recognise(n, m))
         /\ Persists(n, Recognise(n, m))
         /\ Yields(n, Recognise(n, m))
<1> DEFINE s == IF m.term > n.currentTerm THEN StepDown(n, m.term) ELSE n
           role == IF s.role \in {Candidate, PreCandidate} THEN Follower ELSE s.role
           r == [s EXCEPT !.role = role, !.leaderId = m.src, !.heardLeader = LeaderStickiness]
<1>1. Sane(s) /\ Persists(n, s) /\ Yields(n, s)
  <2>1. n \in NodeState
    BY DEF Sane
  <2> QED BY <2>1, StepDownYields, RelationsCompose, YieldsCompose
<1>2. Recognise(n, m) = r
  BY Zenon DEF Recognise
<1> HIDE DEF s
<1>3. s \in NodeState /\ s.snapshotIndex <= s.lastApplied /\ role \in Role
      /\ (role = s.role \/ role = Follower)
  BY <1>1 DEF Sane, NodeState, Role
<1> HIDE DEF role
<1>4. r \in NodeState
  BY <1>3, ConfigAssumption, ZenonT(90) DEF NodeState
<1>5. /\ r.currentTerm = s.currentTerm /\ r.votedFor = s.votedFor /\ r.log = s.log
      /\ r.snapshotIndex = s.snapshotIndex /\ r.snapshotTerm = s.snapshotTerm
      /\ r.snapshotData = s.snapshotData /\ r.snapshotMembers = s.snapshotMembers
      /\ r.role = role /\ r.votes = s.votes /\ r.lastApplied = s.lastApplied
      /\ r.dirty = s.dirty
  BY <1>3, SMTT(30) DEF NodeState
<1> HIDE DEF r
<1>6. Sane(r) /\ Persists(s, r)
  BY <1>3, <1>4, <1>5 DEF Sane, Persists, Durable
<1>7. Yields(n, r)
  BY <1>1, <1>3, <1>5 DEF Yields
<1>8. Persists(n, r)
  BY <1>1, <1>6, RelationsCompose
<1> QED BY <1>2, <1>6, <1>7, <1>8

\* Merging the entries of a message whose previous entry matches leaves a log, without a
\* gap, and marks it dirty.
LEMMA MergeEntriesFacts ==
  ASSUME NEW i \in Server, NEW n, Sane(n), NEW m \in AppendEntries, PrevMatches(n, m)
  PROVE  /\ Sane(MergeEntries(i, n, m))
         /\ Persists(n, MergeEntries(i, n, m))
         /\ Keeps(n, MergeEntries(i, n, m))
<1>0. n \in NodeState /\ n.snapshotIndex <= n.lastApplied
  BY DEF Sane
<1>1. CASE Fresh(n, m) = {}
  <2>1. MergeEntries(i, n, m) = n
    BY <1>1 DEF MergeEntries
  <2> QED BY <2>1, RelationsCompose
<1>2. CASE Fresh(n, m) # {}
  <2> DEFINE first == Smallest(Fresh(n, m))
             base == m.prevLogIndex + first - 1
             new == SubSeq(m.entries, first, Len(m.entries))
             kept == SubSeq(n.log, 1, base - n.snapshotIndex)
             log == kept \o new
             s == [n EXCEPT !.log = log, !.dirty = TRUE]
  <2>1. /\ m.prevLogIndex \in Nat /\ m.entries \in Seq(LogEntry) /\ Len(m.entries) \in Nat
        /\ n.snapshotIndex \in Nat /\ n.log \in Seq(LogEntry) /\ Len(n.log) \in Nat
        /\ LastIndex(n) = n.snapshotIndex + Len(n.log)
    <3>1. m.prevLogIndex \in Nat /\ m.entries \in Seq(LogEntry)
      BY DEF AppendEntries
    <3>2. n.snapshotIndex \in Nat /\ n.log \in Seq(LogEntry)
      BY <1>0 DEF NodeState
    <3> QED BY <3>1, <3>2 DEF LastIndex
  <2>2. \A k \in 1 .. Len(m.entries) : m.entries[k] \in LogEntry /\ m.entries[k].term \in Nat
    <3>1. \A k \in 1 .. Len(m.entries) : m.entries[k] \in LogEntry
      BY <2>1
    <3> QED BY <3>1 DEF LogEntry
  <2>3. /\ first \in 1 .. Len(m.entries)
        /\ \A k \in Fresh(n, m) : first <= k
    <3>1. Fresh(n, m) \in SUBSET (1 .. Len(m.entries)) /\ Fresh(n, m) \in SUBSET Nat
      BY <2>1 DEF Fresh
    <3> QED BY <3>1, <1>2, SmallestType
  <2> HIDE DEF first
  <2>4. base \in Nat /\ n.snapshotIndex <= base /\ base <= LastIndex(n)
    <3>1. n.snapshotIndex <= m.prevLogIndex /\ m.prevLogIndex <= LastIndex(n)
      BY DEF PrevMatches, HasIndex
    <3>2. CASE first = 1
      BY <3>1, <3>2, <2>1
    <3>3. CASE first # 1
      <4>1. first - 1 \in 1 .. Len(m.entries) /\ first - 1 \notin Fresh(n, m)
        BY <3>3, <2>1, <2>3
      <4>2. TermAt(n, m.prevLogIndex + (first - 1)) = m.entries[first - 1].term
        BY <4>1 DEF Fresh
      <4>3. HasIndex(n, m.prevLogIndex + (first - 1))
        BY <4>1, <4>2, <2>2 DEF TermAt
      <4> QED BY <4>3, <4>1, <2>1, <2>3 DEF HasIndex
    <3> QED BY <3>2, <3>3
  <2>5. new \in Seq(LogEntry)
    BY <2>1, <2>2, <2>3, SubSeqProperties
  <2>6. kept \in Seq(LogEntry)
    <3> DEFINE upto == base - n.snapshotIndex
    <3>1. upto \in Nat /\ upto <= Len(n.log)
      BY <2>1, <2>4
    <3>2. \A k \in 1 .. upto : n.log[k] \in LogEntry
      BY <2>1, <3>1
    <3> HIDE DEF upto
    <3>3. SubSeq(n.log, 1, upto) \in Seq(LogEntry)
      BY <2>1, <3>1, <3>2, SubSeqProperties
    <3> QED BY <3>3 DEF upto
  <2>7. log \in Seq(LogEntry)
    <3> HIDE DEF new, kept
    <3> QED BY <2>5, <2>6, ConcatProperties
  <2>8. MergeEntries(i, n, m) = ApplyConfig(i, s, base, new)
    BY <1>2, Zenon DEF MergeEntries, first
  <2> HIDE DEF base, new, log
  <2>9. s \in NodeState
    BY <1>0, <2>7, ZenonT(90) DEF NodeState
  <2>10. /\ s.dirty = TRUE /\ s.currentTerm = n.currentTerm /\ s.votedFor = n.votedFor
         /\ s.role = n.role /\ s.votes = n.votes /\ s.leaderId = n.leaderId
         /\ s.snapshotIndex = n.snapshotIndex /\ s.lastApplied = n.lastApplied
    BY <1>0, SMTT(30) DEF NodeState
  <2> HIDE DEF s
  <2> DEFINE a == ApplyConfig(i, s, base, new)
  <2>11. a \in NodeState /\ Tracked(s, a)
    BY <2>4, <2>5, <2>9, ApplyConfigFacts
  <2> HIDE DEF a
  <2>12. Sane(a) /\ Persists(n, a) /\ Keeps(n, a)
    BY <1>0, <2>10, <2>11 DEF Sane, Persists, Keeps, Tracked
  <2> QED BY <2>8, <2>12 DEF a
<1> QED BY <1>1, <1>2

\* Learning the leader's commit index changes nothing else.
LEMMA LearnCommitFacts ==
  ASSUME NEW n, Sane(n), NEW m \in AppendEntries
  PROVE  /\ Sane(LearnCommit(n, m))
         /\ Persists(n, LearnCommit(n, m))
         /\ Keeps(n, LearnCommit(n, m))
<1>0. n \in NodeState /\ n.snapshotIndex <= n.lastApplied
  BY DEF Sane
<1> DEFINE c == Smaller(m.leaderCommit, m.prevLogIndex + Len(m.entries))
           a == [n EXCEPT !.commitIndex = c]
<1>1. LearnCommit(n, m) = n \/ LearnCommit(n, m) = a
  BY Zenon DEF LearnCommit
<1>2. c \in Nat
  BY DEF AppendEntries, Smaller
<1> HIDE DEF c
<1>3. a \in NodeState
  BY <1>0, <1>2, ZenonT(90) DEF NodeState
<1>4. Sane(a) /\ Persists(n, a) /\ Keeps(n, a)
  BY <1>0, <1>3 DEF Sane, Persists, Keeps, Durable, NodeState
<1> QED BY <1>1, <1>4, RelationsCompose

\* Installing a snapshot brings state machine and snapshot to the same index, marked dirty.
LEMMA InstallStateFacts ==
  ASSUME NEW i \in Server, NEW n, Sane(n), NEW m \in InstallSnapshot
  PROVE  /\ Sane(InstallState(i, n, m))
         /\ Persists(n, InstallState(i, n, m))
         /\ Keeps(n, InstallState(i, n, m))
<1>0. n \in NodeState
  BY DEF Sane
<1> DEFINE r == RestoreMachine(n, m.data, m.lastIncludedIndex)
           mem == IF m.members # {} THEN m.members ELSE r.snapshotMembers
           c == Larger(r.commitIndex, m.lastIncludedIndex)
           s == [r EXCEPT !.snapshotIndex = m.lastIncludedIndex,
                          !.snapshotTerm = m.lastIncludedTerm,
                          !.snapshotData = m.data, !.snapshotMembers = mem,
                          !.log = <<>>, !.commitIndex = c, !.dirty = TRUE]
<1>1. /\ m.lastIncludedIndex \in Nat /\ m.lastIncludedTerm \in TermOrNone
      /\ m.data \in Seq(Command) /\ m.members \in Configuration
  BY DEF InstallSnapshot
<1>2. r = [n EXCEPT !.sm = m.data, !.lastApplied = m.lastIncludedIndex]
  BY DEF RestoreMachine
<1>3. r \in NodeState
  BY <1>0, <1>1, <1>2, ZenonT(90) DEF NodeState
<1>4. /\ r.currentTerm = n.currentTerm /\ r.votedFor = n.votedFor
      /\ r.role = n.role /\ r.votes = n.votes /\ r.leaderId = n.leaderId
      /\ r.lastApplied = m.lastIncludedIndex
  BY <1>0, <1>2, SMTT(30) DEF NodeState
<1>5. InstallState(i, n, m) = IF m.members # {} THEN SetMembers(i, s, m.members) ELSE s
  BY Zenon DEF InstallState
<1> HIDE DEF r
<1>6. mem \in Configuration /\ c \in Nat /\ <<>> \in Seq(LogEntry)
  BY <1>1, <1>3 DEF NodeState, Larger
<1> HIDE DEF mem, c
<1>7. s \in NodeState
  BY <1>1, <1>3, <1>6, ZenonT(60) DEF NodeState
<1>8. /\ s.dirty = TRUE /\ s.currentTerm = n.currentTerm /\ s.votedFor = n.votedFor
      /\ s.role = n.role /\ s.votes = n.votes /\ s.leaderId = n.leaderId
      /\ s.snapshotIndex = m.lastIncludedIndex /\ s.lastApplied = m.lastIncludedIndex
  BY <1>3, <1>4, SMTT(30) DEF NodeState
<1> HIDE DEF s
<1>9. Sane(s) /\ Persists(n, s) /\ Keeps(n, s)
  BY <1>1, <1>7, <1>8 DEF Sane, Persists, Keeps
<1>10. Sane(SetMembers(i, s, m.members)) /\ Tracked(s, SetMembers(i, s, m.members))
  BY <1>1, <1>7, <1>9, SetMembersFacts DEF Sane, Tracked
<1> QED BY <1>5, <1>9, <1>10, RelationsCompose

\* Counting an acknowledgement keeps everything but the bookkeeping and the commit index.
LEMMA AcknowledgedFacts ==
  ASSUME NEW i \in Server, NEW n, Sane(n), NEW p \in Server, NEW match \in Nat
  PROVE  /\ Sane(Acknowledged(i, n, p, match))
         /\ Persists(n, Acknowledged(i, n, p, match))
         /\ Keeps(n, Acknowledged(i, n, p, match))
<1>0. n \in NodeState /\ n.snapshotIndex <= n.lastApplied
  BY DEF Sane
<1> DEFINE known == Larger(n.matchIndex[p], match)
           mat == [n.matchIndex EXCEPT ![p] = known]
           nxt == [n.nextIndex EXCEPT ![p] = known + 1]
           s == [n EXCEPT !.matchIndex = mat, !.nextIndex = nxt]
           a == AdvanceCommit(i, s)
<1>1. n.matchIndex \in [Server -> Nat] /\ n.nextIndex \in [Server -> Nat]
  BY <1>0 DEF NodeState
<1>2. known \in Nat /\ known + 1 \in Nat
  BY <1>1 DEF Larger
<1>3. mat \in [Server -> Nat] /\ nxt \in [Server -> Nat]
  BY <1>1, <1>2
<1>4. Acknowledged(i, n, p, match) = a
  BY Zenon DEF Acknowledged
<1> HIDE DEF mat, nxt
<1>5. s \in NodeState
  BY <1>0, <1>3, ZenonT(90) DEF NodeState
<1>6. Tracked(n, s)
  BY <1>0, SMTT(30) DEF NodeState, Tracked
<1> HIDE DEF s
<1>7. /\ a \in NodeState
      /\ a.lastApplied = s.lastApplied
      /\ a.snapshotIndex = s.snapshotIndex
      /\ Persists(s, a) /\ Keeps(s, a)
  BY <1>5, AdvanceCommitFacts
<1> HIDE DEF a
<1>8. Sane(a)
  BY <1>0, <1>6, <1>7 DEF Sane, Tracked
<1> QED BY <1>4, <1>6, <1>7, <1>8, RelationsCompose

\* Fast backup leaves next_index positive.
LEMMA BackUpFacts ==
  ASSUME NEW n, Sane(n), NEW m \in AppendEntriesResp
  PROVE  /\ Sane(BackUp(n, m))
         /\ Persists(n, BackUp(n, m))
         /\ Keeps(n, BackUp(n, m))
<1>0. n \in NodeState /\ n.snapshotIndex <= n.lastApplied
  BY DEF Sane
<1> DEFINE next == NextAfterRejection(n, m)
           nxt == [n.nextIndex EXCEPT ![m.src] = next]
           snt == [n.sentUpto EXCEPT ![m.src] = next - 1]
           a == [n EXCEPT !.nextIndex = nxt, !.sentUpto = snt]
<1>1. next \in Nat \ {0}
  <2> DEFINE ofTerm == {k \in n.snapshotIndex + 1 .. LastIndex(n) :
                          TermAt(n, k) = m.conflictTerm}
  <2>1. n.snapshotIndex \in Nat /\ LastIndex(n) \in Nat /\ m.conflictIndex \in Nat
    BY <1>0, LogFacts DEF NodeState, AppendEntriesResp
  <2>2. ofTerm # {} => Largest(ofTerm) \in Nat
    <3>1. ofTerm \in SUBSET Nat /\ \A k \in ofTerm : k <= LastIndex(n)
      BY <2>1
    <3> QED BY <3>1, <2>1, LargestType
  <2> HIDE DEF ofTerm
  <2>3. \/ next = Largest(ofTerm) + 1 /\ ofTerm # {}
        \/ next = Larger(1, m.conflictIndex)
    BY Zenon DEF NextAfterRejection, ofTerm
  <2> HIDE DEF next
  <2> QED BY <2>1, <2>2, <2>3 DEF Larger
<1>2. BackUp(n, m) = a
  BY Zenon DEF BackUp
<1> HIDE DEF next
<1>3. nxt \in [Server -> Nat] /\ snt \in [Server -> Nat]
  <2>1. n.nextIndex \in [Server -> Nat] /\ n.sentUpto \in [Server -> Nat]
    BY <1>0 DEF NodeState
  <2>2. next \in Nat /\ next - 1 \in Nat
    BY <1>1
  <2> QED BY <2>1, <2>2
<1> HIDE DEF nxt, snt
<1>4. a \in NodeState
  BY <1>0, <1>3, ZenonT(90) DEF NodeState
<1>5. Tracked(n, a)
  BY <1>0, SMTT(30) DEF NodeState, Tracked
<1> HIDE DEF a
<1>6. Sane(a)
  BY <1>0, <1>4, <1>5 DEF Sane, Tracked
<1> QED BY <1>2, <1>5, <1>6, RelationsCompose

\* Appending a command marks the log dirty.
LEMMA ProposeFacts ==
  ASSUME NEW i \in Server, NEW n, Sane(n), NEW addr \in Nat,
         NEW cmd \in Command, cmd.seq \in Nat, cmd.client \in Int
  PROVE  /\ Sane(Propose(i, n, addr, cmd))
         /\ Persists(n, Propose(i, n, addr, cmd))
         /\ Keeps(n, Propose(i, n, addr, cmd))
<1>0. n \in NodeState /\ n.snapshotIndex <= n.lastApplied
  BY DEF Sane
<1> DEFINE index == LastIndex(n) + 1
           e == Entry(n.currentTerm, cmd)
           log == Append(n.log, e)
           s == [n EXCEPT !.log = log, !.dirty = TRUE]
           a == ApplyConfig(i, s, index - 1, <<e>>)
           pend == a.pending \cup {[index |-> index, addr |-> addr, seq |-> cmd.seq]}
           byReq == a.pendingByReq
                      \cup {[client |-> cmd.client, seq |-> cmd.seq, index |-> index]}
           b == [a EXCEPT !.pending = pend, !.pendingByReq = byReq]
<1>1. Propose(i, n, addr, cmd) = b
  BY Zenon DEF Propose
<1>2. index \in Nat /\ index - 1 \in Nat
  BY <1>0, LogFacts
<1> HIDE DEF index
<1>3. e \in LogEntry /\ <<e>> \in Seq(LogEntry) /\ log \in Seq(LogEntry)
  <2>1. n.currentTerm \in Nat /\ n.log \in Seq(LogEntry)
    BY <1>0 DEF NodeState
  <2>2. e \in LogEntry
    BY <2>1 DEF Entry, LogEntry
  <2> HIDE DEF e
  <2> QED BY <2>1, <2>2
<1> HIDE DEF e, log
<1>4. s \in NodeState
  BY <1>0, <1>3, ZenonT(90) DEF NodeState
<1>5. /\ s.dirty = TRUE /\ s.currentTerm = n.currentTerm /\ s.votedFor = n.votedFor
      /\ s.role = n.role /\ s.votes = n.votes /\ s.leaderId = n.leaderId
      /\ s.snapshotIndex = n.snapshotIndex /\ s.lastApplied = n.lastApplied
  BY <1>0, SMTT(30) DEF NodeState
<1> HIDE DEF s
<1>6. a \in NodeState /\ Tracked(s, a)
  BY <1>2, <1>3, <1>4, ApplyConfigFacts
<1> HIDE DEF a
<1>7. /\ pend \in SUBSET [index : Nat, addr : Nat, seq : Nat]
      /\ byReq \in SUBSET [client : Int, seq : Nat, index : Nat]
  <2>1. /\ a.pending \in SUBSET [index : Nat, addr : Nat, seq : Nat]
        /\ a.pendingByReq \in SUBSET [client : Int, seq : Nat, index : Nat]
    BY <1>6 DEF NodeState
  <2>2. [index |-> index, addr |-> addr, seq |-> cmd.seq] \in [index : Nat, addr : Nat, seq : Nat]
    BY <1>2
  <2>3. [client |-> cmd.client, seq |-> cmd.seq, index |-> index]
           \in [client : Int, seq : Nat, index : Nat]
    BY <1>2
  <2> QED BY <2>1, <2>2, <2>3
<1> HIDE DEF pend, byReq
<1>8. b \in NodeState
  BY <1>6, <1>7, ZenonT(90) DEF NodeState
<1>9. Tracked(a, b)
  BY <1>6, SMTT(30) DEF NodeState, Tracked
<1> HIDE DEF b
<1>10. Sane(b) /\ Persists(n, b) /\ Keeps(n, b)
  BY <1>0, <1>5, <1>6, <1>8, <1>9 DEF Sane, Persists, Keeps, Tracked
<1> QED BY <1>1, <1>10

-----------------------------------------------------------------------------
(* Starting and restarting *)

\* A new node is a follower that has not voted.
LEMMA InitNodeFacts ==
  /\ Sane(InitNode)
  /\ InitNode.currentTerm = 0 /\ InitNode.votedFor = Nil
  /\ InitNode.role = Follower /\ InitNode.votes = {}
<1>1. InitNode \in NodeState
  BY ServerAssumption, SMTT(60) DEF InitNode, NodeState, TermOrNone, Configuration, Role
<1> QED BY <1>1 DEF Sane, InitNode

\* A restarted node has the term and the vote of its disk and no role.
LEMMA RestartedFacts ==
  ASSUME NEW i \in Server, NEW n, n.preTerm \in Nat, NEW d \in DurableState
  PROVE  /\ Sane(Restarted(i, n, d))
         /\ Restarted(i, n, d).dirty = TRUE
         /\ Restarted(i, n, d).currentTerm = d.currentTerm
         /\ Restarted(i, n, d).votedFor = d.votedFor
         /\ Restarted(i, n, d).role = Follower
<1> DEFINE r == RestoreMachine(InitNode, d.snapshotData, d.snapshotIndex)
           s == [r EXCEPT
                   !.currentTerm = d.currentTerm, !.votedFor = d.votedFor, !.log = d.log,
                   !.snapshotIndex = d.snapshotIndex, !.snapshotTerm = d.snapshotTerm,
                   !.snapshotData = d.snapshotData, !.snapshotMembers = d.snapshotMembers,
                   !.commitIndex = d.snapshotIndex, !.preTerm = n.preTerm, !.dirty = TRUE]
<1>1. /\ d.currentTerm \in Nat /\ d.votedFor \in Server \cup {Nil} /\ d.log \in Seq(LogEntry)
      /\ d.snapshotIndex \in Nat /\ d.snapshotTerm \in TermOrNone
      /\ d.snapshotData \in Seq(Command) /\ d.snapshotMembers \in Configuration
  BY DEF DurableState
<1>2. InitNode \in NodeState /\ InitNode.role = Follower
  BY InitNodeFacts DEF Sane
<1>3. r = [InitNode EXCEPT !.sm = d.snapshotData, !.lastApplied = d.snapshotIndex]
  BY DEF RestoreMachine
<1>4. r \in NodeState
  BY <1>1, <1>2, <1>3, ZenonT(90) DEF NodeState
<1>5. r.role = Follower /\ r.lastApplied = d.snapshotIndex
  BY <1>2, <1>3 DEF NodeState
<1>6. Restarted(i, n, d) = RebuildConfig(i, s)
  BY Zenon DEF Restarted
<1> HIDE DEF r
<1>7. s \in NodeState
  BY <1>1, <1>4, ZenonT(60) DEF NodeState
<1>8. /\ s.dirty = TRUE /\ s.currentTerm = d.currentTerm /\ s.votedFor = d.votedFor
      /\ s.role = Follower /\ s.snapshotIndex = d.snapshotIndex
      /\ s.lastApplied = d.snapshotIndex
  BY <1>4, <1>5, SMTT(30) DEF NodeState
<1> HIDE DEF s
<1>9. RebuildConfig(i, s) \in NodeState /\ Tracked(s, RebuildConfig(i, s))
  BY <1>7, RebuildConfigFacts
<1> QED BY <1>1, <1>6, <1>8, <1>9 DEF Sane, Tracked

-----------------------------------------------------------------------------
(* Messages *)

\* The type field tells which set of records a message comes from.
LEMMA MessageOfType ==
  ASSUME NEW m \in NodeMessage
  PROVE  /\ m.type \in {"PreVote", "RequestVote"} => m \in VoteRequest
         /\ m.type \in {"PreVoteResp", "RequestVoteResp"} => m \in VoteResponse
         /\ m.type = "AppendEntries" => m \in AppendEntries
         /\ m.type = "AppendEntriesResp" => m \in AppendEntriesResp
         /\ m.type = "InstallSnapshot" => m \in InstallSnapshot
         /\ m.type = "InstallSnapshotResp" => m \in InstallSnapshotResp
         /\ m.type = "ClientRequest" => m \in MemberRequest
         /\ m.dst \in Server
  BY DEF NodeMessage, VoteRequest, VoteResponse, AppendEntries, AppendEntriesResp,
         InstallSnapshot, InstallSnapshotResp, MemberRequest


-----------------------------------------------------------------------------
(* Logs from their first entry *)

\* The first k entries of u and of v are there and are the same.
Share(u, v, k) ==
  /\ k <= Len(u) /\ k <= Len(v)
  /\ \A j \in 1 .. k : u[j] = v[j]

\* The term of entry k, and of no entry.
TermOf(u, k) == IF k = 0 THEN 0 ELSE u[k].term

\* The commands of the first k entries.
Commands(u, k) == [j \in 1 .. k |-> u[j].cmd]

\* The comparison of handle_request_vote, of a log v of length l with one that
\* ends with entry k of u.
UpToDate(v, l, u, k) ==
  \/ TermOf(v, l) > TermOf(u, k)
  \/ TermOf(v, l) = TermOf(u, k) /\ l >= k

-----------------------------------------------------------------------------
(* Histories *)

\* terms:  the terms that have had a leader
\* led:    led[t] is the log of the leader of term t
\* won:    won[t] is how long that log was when the leader was elected
\* held:   held[p][t] is how much of it server p has held while in term t
\* whole:  whole[p] is the log of p with all that it has compacted
\* now:    now[p] is the term of p
History ==
  [terms : SUBSET Nat, led : [Nat -> Seq(LogEntry)], won : [Nat -> Nat],
   held : [Server -> [Nat -> Nat]], whole : [Server -> Seq(LogEntry)],
   now : [Server -> Nat]]

\* Every entry of u was written by the leader of its term, after the same entries.
Known(h, u) ==
  \A k \in 1 .. Len(u) :
    u[k].term \in h.terms /\ Share(u, h.led[u[k].term], k)

\* The leader of term s was elected without the first k entries of the leader of t.
Lost(h, t, k, s) ==
  s \in h.terms /\ ~(k <= h.won[s] /\ Share(h.led[s], h.led[t], k))

\* Log v, of which the first l entries count, is as up to date as anything p has held
\* before term s, unless a leader before s was elected without it.
Backs(h, p, s, v, l) ==
  \A t \in Nat : \A k \in 1 .. h.held[p][t] :
    t < s => \/ UpToDate(v, l, h.led[t], k)
             \/ \E r \in Nat : t < r /\ r < s /\ Lost(h, t, k, r)

\* The leader of a term found its log when elected, and wrote the rest in its term.
LedSound(h) ==
  \A t \in h.terms :
    /\ Known(h, h.led[t])
    /\ h.won[t] <= Len(h.led[t])
    /\ \A k \in 1 .. Len(h.led[t]) :
         IF k <= h.won[t] THEN h.led[t][k].term < t ELSE h.led[t][k].term = t

WholeSound(h) ==
  \A p \in Server :
    /\ Known(h, h.whole[p])
    /\ \A k \in 1 .. Len(h.whole[p]) : h.whole[p][k].term <= h.now[p]

HeldSound(h) ==
  \A p \in Server : \A t \in Nat :
    h.held[p][t] # 0 =>
      t \in h.terms /\ t <= h.now[p] /\ h.held[p][t] <= Len(h.led[t])

\* What a server has held it holds, or a later leader was elected without it.
Kept(h) ==
  \A p \in Server : \A t \in Nat : \A k \in 1 .. h.held[p][t] :
    \/ Share(h.whole[p], h.led[t], k)
    \/ \E r \in Nat : t < r /\ r <= h.now[p] /\ Lost(h, t, k, r)

\* A majority backed the log with which a leader was elected.
WonSound(h) ==
  \A t \in h.terms : \E Q \in SUBSET InitialMembers :
    /\ Electors(Q)
    /\ \A p \in Q : h.now[p] >= t /\ Backs(h, p, t, h.led[t], h.won[t])

Sound(h) ==
  /\ h \in History
  /\ LedSound(h) /\ WholeSound(h) /\ HeldSound(h) /\ Kept(h) /\ WonSound(h)

\* A majority has held the first k entries of the leader of t, the last of its own term.
Chosen(h, t, k) ==
  /\ t \in h.terms
  /\ h.won[t] < k /\ k <= Len(h.led[t])
  /\ \E Q \in SUBSET InitialMembers : Electors(Q) /\ \A p \in Q : h.held[p][t] >= k

\* The first c entries of u are part of what was chosen in a term up to t.
Covered(h, u, c, t) ==
  \/ c = 0
  \/ \E s, k \in Nat :
       s <= t /\ c <= k /\ Chosen(h, s, k) /\ Share(u, h.led[s], c)

\* History g goes on from h.
Follows(h, g) ==
  /\ h.terms \subseteq g.terms
  /\ \A t \in h.terms : g.won[t] = h.won[t] /\ Share(h.led[t], g.led[t], Len(h.led[t]))
  /\ \A p \in Server :
       /\ h.now[p] <= g.now[p]
       /\ \A t \in Nat : /\ h.held[p][t] <= g.held[p][t]
                         /\ t < h.now[p] => g.held[p][t] = h.held[p][t]

-----------------------------------------------------------------------------
(* What a sound history excludes *)

\* The types of a history, one field at a time.
LEMMA HistoryTypes ==
  ASSUME NEW h \in History
  PROVE  /\ h.terms \in SUBSET Nat
         /\ \A t \in Nat : /\ h.led[t] \in Seq(LogEntry) /\ Len(h.led[t]) \in Nat
                           /\ h.won[t] \in Nat
                           /\ \A k \in 1 .. Len(h.led[t]) : h.led[t][k] \in LogEntry
         /\ \A p \in Server :
              /\ h.now[p] \in Nat
              /\ \A t \in Nat : h.held[p][t] \in Nat
              /\ h.whole[p] \in Seq(LogEntry) /\ Len(h.whole[p]) \in Nat
              /\ \A k \in 1 .. Len(h.whole[p]) : h.whole[p][k] \in LogEntry
<1>1. /\ h.terms \in SUBSET Nat /\ h.led \in [Nat -> Seq(LogEntry)]
      /\ h.won \in [Nat -> Nat] /\ h.held \in [Server -> [Nat -> Nat]]
      /\ h.whole \in [Server -> Seq(LogEntry)] /\ h.now \in [Server -> Nat]
  BY DEF History
<1>2. \A u \in Seq(LogEntry) : Len(u) \in Nat /\ \A k \in 1 .. Len(u) : u[k] \in LogEntry
  OBVIOUS
<1>3. ASSUME NEW t \in Nat
      PROVE  h.led[t] \in Seq(LogEntry) /\ h.won[t] \in Nat
  BY <1>1
<1>4. ASSUME NEW p \in Server
      PROVE  /\ h.now[p] \in Nat /\ h.whole[p] \in Seq(LogEntry)
             /\ \A t \in Nat : h.held[p][t] \in Nat
  <2>1. h.held[p] \in [Nat -> Nat]
    BY <1>1
  <2> QED BY <1>1, <2>1
<1> QED BY <1>1, <1>2, <1>3, <1>4

\* The term of an entry.
LEMMA EntryTypes ==
  ASSUME NEW u \in Seq(LogEntry), NEW k \in 1 .. Len(u)
  PROVE  u[k] \in LogEntry /\ u[k].term \in Nat /\ u[k].cmd \in Command
<1>1. u[k] \in LogEntry
  OBVIOUS
<1> QED BY <1>1 DEF LogEntry

\* Log matching: two logs that have an entry of the same term at the same place are the
\* same up to there.
LEMMA KnownMeet ==
  ASSUME NEW h, NEW u \in Seq(LogEntry), NEW v \in Seq(LogEntry), Known(h, u), Known(h, v),
         NEW k \in 1 .. Len(u), k <= Len(v), u[k].term = v[k].term
  PROVE  Share(u, v, k)
<1>1. Share(u, h.led[u[k].term], k) /\ Share(v, h.led[u[k].term], k)
  BY DEF Known
<1> QED BY <1>1 DEF Share

\* The terms in a log never go back.
LEMMA KnownSorted ==
  ASSUME NEW h \in History, LedSound(h), NEW u \in Seq(LogEntry), Known(h, u),
         NEW k \in 1 .. Len(u), NEW j \in 1 .. k
  PROVE  u[j].term <= u[k].term
<1> DEFINE t == u[k].term
<1>1. t \in h.terms /\ Share(u, h.led[t], k)
  BY DEF Known
<1>2. t \in Nat
  BY <1>1, HistoryTypes
<1>3. j \in 1 .. Len(h.led[t]) /\ u[j] = h.led[t][j]
  BY <1>1, <1>2, HistoryTypes DEF Share
<1>4. h.led[t][j].term \in Nat
  BY <1>2, <1>3, HistoryTypes, EntryTypes
<1>5. IF j <= h.won[t] THEN h.led[t][j].term < t ELSE h.led[t][j].term = t
  BY <1>1, <1>3 DEF LedSound
<1> QED BY <1>2, <1>3, <1>4, <1>5

\* Leader completeness: what a majority of one term has held, with an entry of that term
\* at its end, every later leader was elected with.  In the first later term in which it
\* were not so, a server of both majorities would have held it, voted for a log that is as
\* up to date, and known of no leader in between that lacked it.
LEMMA Survives ==
  ASSUME NEW h, Sound(h), NEW t, NEW k \in Nat, Chosen(h, t, k), NEW s \in h.terms, t < s
  PROVE  k <= h.won[s] /\ Share(h.led[s], h.led[t], k)
<1>0. h \in History /\ LedSound(h) /\ HeldSound(h) /\ WonSound(h)
  BY DEF Sound
<1>1. t \in h.terms /\ h.won[t] < k /\ k <= Len(h.led[t])
  BY DEF Chosen
<1>2. t \in Nat /\ h.terms \in SUBSET Nat
  BY <1>0, <1>1, HistoryTypes
<1> DEFINE Bad == {r \in h.terms : t < r /\ Lost(h, t, k, r)}
<1> SUFFICES Bad = {}
  BY DEF Lost
<1> SUFFICES ASSUME Bad # {} PROVE FALSE
  OBVIOUS
<1> DEFINE b == Smallest(Bad)
<1>3. Bad \in SUBSET Nat
  BY <1>2
<1>4. b \in Bad /\ \A r \in Bad : b <= r
  BY <1>3, SmallestType, Zenon
<1> HIDE DEF b
<1>5. b \in h.terms /\ b \in Nat /\ t < b /\ Lost(h, t, k, b)
  BY <1>2, <1>4
<1>6. \A r \in Nat : t < r /\ r < b => ~Lost(h, t, k, r)
  <2> SUFFICES ASSUME NEW r \in Nat, t < r, r < b, Lost(h, t, k, r) PROVE FALSE
    OBVIOUS
  <2>1. r \in Bad
    BY DEF Lost
  <2> QED BY <2>1, <1>4, <1>5
<1> HIDE DEF Bad
<1>7. PICK Q \in SUBSET InitialMembers : Electors(Q) /\ \A p \in Q : h.held[p][t] >= k
  BY DEF Chosen
<1>8. PICK R \in SUBSET InitialMembers :
        Electors(R) /\ \A p \in R : h.now[p] >= b /\ Backs(h, p, b, h.led[b], h.won[b])
  BY <1>0, <1>5 DEF WonSound
<1>9. PICK p \in Q : p \in R
  BY <1>7, <1>8, ElectorsMeet
<1>10. p \in Server
  BY <1>9, ServerAssumption
<1>11. k \in 1 .. h.held[p][t]
  <2>1. h.held[p][t] \in Nat /\ h.won[t] \in Nat
    BY <1>0, <1>2, <1>10, HistoryTypes
  <2>2. h.held[p][t] >= k
    BY <1>7, <1>9
  <2> QED BY <1>1, <2>1, <2>2
<1>12. UpToDate(h.led[b], h.won[b], h.led[t], k)
  BY <1>2, <1>5, <1>6, <1>8, <1>9, <1>11 DEF Backs
<1> DEFINE l == h.won[b]
           v == h.led[b]
           u == h.led[t]
<1>13. /\ u \in Seq(LogEntry) /\ v \in Seq(LogEntry) /\ Len(u) \in Nat /\ Len(v) \in Nat
       /\ l \in Nat /\ l <= Len(v) /\ Known(h, v) /\ Known(h, u)
  BY <1>0, <1>1, <1>2, <1>5, HistoryTypes DEF LedSound
<1>14. u[k].term = t /\ k \in 1 .. Len(u)
  <2>1. h.won[t] \in Nat
    BY <1>0, <1>2, HistoryTypes
  <2>2. k \in 1 .. Len(u) /\ ~(k <= h.won[t])
    BY <1>1, <1>13, <2>1
  <2> QED BY <1>0, <1>1, <2>2 DEF LedSound
<1>15. ~(k <= l /\ Share(v, u, k))
  BY <1>5 DEF Lost
<1>16. TermOf(u, k) = t
  BY <1>14 DEF TermOf
<1>17. TermOf(v, l) > t \/ (TermOf(v, l) = t /\ l >= k)
  BY <1>12, <1>16 DEF UpToDate
<1>18. k # 0
  BY <1>14
<1>19. l # 0
  BY <1>2, <1>13, <1>14, <1>17, <1>18 DEF TermOf
<1>20. l \in 1 .. Len(v)
  BY <1>13, <1>19
<1> DEFINE r == v[l].term
<1>21. TermOf(v, l) = r /\ r \in h.terms /\ r \in Nat /\ r < b /\ Share(v, h.led[r], l)
  <2>1. r \in h.terms /\ Share(v, h.led[r], l)
    BY <1>13, <1>20 DEF Known
  <2>2. r < b
    BY <1>0, <1>5, <1>20 DEF LedSound
  <2> QED BY <1>2, <1>19, <2>1, <2>2 DEF TermOf
<1> HIDE DEF r
<1>22. CASE r = t /\ l >= k
  BY <1>15, <1>21, <1>22, <1>13, <1>14 DEF Share
<1>23. CASE r > t
  <2>1. ~Lost(h, t, k, r)
    BY <1>6, <1>21, <1>23
  <2>2. k <= h.won[r] /\ Share(h.led[r], u, k)
    BY <2>1, <1>21 DEF Lost
  <2>3. h.won[r] < l
    <3>1. l \in 1 .. Len(h.led[r]) /\ h.led[r][l] = v[l]
      BY <1>20, <1>21 DEF Share
    <3>2. h.led[r][l].term = r
      BY <3>1, <1>21 DEF r
    <3>3. h.won[r] \in Nat
      BY <1>0, <1>21, HistoryTypes
    <3>4. l <= h.won[r] => h.led[r][l].term < r
      BY <3>1, <1>0, <1>21 DEF LedSound
    <3> QED BY <3>2, <3>3, <3>4, <1>13, <1>21
  <2>4. k <= l
    <3>1. h.won[r] \in Nat
      BY <1>0, <1>21, HistoryTypes
    <3> QED BY <2>2, <2>3, <3>1, <1>13
  <2>5. Share(v, u, k)
    BY <2>2, <2>4, <1>13, <1>21 DEF Share
  <2> QED BY <2>4, <2>5, <1>15
<1> QED BY <1>17, <1>21, <1>22, <1>23

\* What was chosen up to a term is in the log of its leader.
LEMMA CoveredByLeader ==
  ASSUME NEW h, Sound(h), NEW u, NEW c \in Nat, NEW t \in h.terms, Covered(h, u, c, t)
  PROVE  c = 0 \/ Share(u, h.led[t], c)
<1> SUFFICES ASSUME c # 0 PROVE Share(u, h.led[t], c)
  OBVIOUS
<1>1. PICK s \in Nat, k \in Nat :
        s <= t /\ c <= k /\ Chosen(h, s, k) /\ Share(u, h.led[s], c)
  BY DEF Covered
<1>2. t \in Nat
  BY HistoryTypes DEF Sound
<1>3. CASE s = t
  BY <1>1, <1>3
<1>4. CASE s < t
  <2>1. Share(h.led[t], h.led[s], k)
    BY <1>1, <1>4, Survives
  <2> QED BY <1>1, <2>1 DEF Share
<1> QED BY <1>1, <1>2, <1>3, <1>4

-----------------------------------------------------------------------------
(* What lasts when a history goes on *)

\* The leader's entries stay where they are.
LEMMA LedSharedStays ==
  ASSUME NEW h \in History, NEW g, Follows(h, g), NEW t \in h.terms, NEW k \in Nat,
         NEW u, Share(u, h.led[t], k)
  PROVE  Share(u, g.led[t], k)
<1>1. Share(h.led[t], g.led[t], Len(h.led[t])) /\ Len(h.led[t]) \in Nat
  BY HistoryTypes DEF Follows
<1>2. Len(h.led[t]) <= Len(g.led[t]) /\ \A j \in 1 .. k : h.led[t][j] = g.led[t][j]
  BY <1>1 DEF Share
<1>3. k <= Len(g.led[t])
  <2>1. k <= Len(h.led[t])
    BY DEF Share
  <2>2. Len(h.led[t]) <= Len(g.led[t])
    BY <1>2
  <2> HIDE DEF Follows
  <2> QED BY <2>1, <2>2, <1>1
<1> QED BY <1>2, <1>3 DEF Share

\* So a log that was written by leaders still is.
LEMMA KnownStays ==
  ASSUME NEW h \in History, NEW g, Follows(h, g), NEW u \in Seq(LogEntry), Known(h, u)
  PROVE  Known(g, u)
<1> SUFFICES ASSUME NEW k \in 1 .. Len(u)
             PROVE  u[k].term \in g.terms /\ Share(u, g.led[u[k].term], k)
  BY DEF Known
<1>1. u[k].term \in h.terms /\ Share(u, h.led[u[k].term], k)
  BY DEF Known
<1>2. u[k].term \in g.terms
  BY <1>1 DEF Follows
<1>3. k \in Nat
  OBVIOUS
<1> DEFINE t == u[k].term
<1>4. t \in h.terms /\ Share(u, h.led[t], k)
  BY <1>1
<1> HIDE DEF t
<1>5. Share(u, g.led[t], k)
  BY <1>3, <1>4, LedSharedStays
<1> QED BY <1>2, <1>5 DEF t

\* What was chosen stays chosen.
LEMMA ChosenStays ==
  ASSUME NEW h \in History, NEW g \in History, Follows(h, g), NEW t, NEW k \in Nat, Chosen(h, t, k)
  PROVE  Chosen(g, t, k)
<1>1. t \in h.terms /\ t \in Nat /\ h.won[t] < k /\ k <= Len(h.led[t])
  BY HistoryTypes DEF Chosen
<1>2. t \in g.terms /\ g.won[t] = h.won[t]
  BY <1>1 DEF Follows
<1>3. k <= Len(g.led[t])
  <2>1. Len(h.led[t]) <= Len(g.led[t])
    BY <1>1 DEF Follows, Share
  <2>2. Len(h.led[t]) \in Nat /\ Len(g.led[t]) \in Nat
    BY <1>1, HistoryTypes
  <2> QED BY <1>1, <2>1, <2>2
<1>4. PICK Q \in SUBSET InitialMembers : Electors(Q) /\ \A p \in Q : h.held[p][t] >= k
  BY DEF Chosen
<1>5. ASSUME NEW p \in Q PROVE g.held[p][t] >= k
  <2>1. p \in Server
    BY ServerAssumption
  <2>2. h.held[p][t] <= g.held[p][t] /\ h.held[p][t] >= k
    BY <1>1, <1>4, <2>1 DEF Follows
  <2>3. h.held[p][t] \in Nat /\ g.held[p][t] \in Nat
    BY <1>1, <2>1, HistoryTypes
  <2> QED BY <2>2, <2>3
<1> QED BY <1>1, <1>2, <1>3, <1>4, <1>5 DEF Chosen

\* What was covered stays covered, in any log that has those entries.
LEMMA CoveredStays ==
  ASSUME NEW h \in History, NEW g \in History, Follows(h, g), NEW u, NEW c \in Nat,
         NEW t \in Nat, Covered(h, u, c, t), NEW v, c # 0 => Share(u, v, c),
         NEW s \in Nat, t <= s
  PROVE  Covered(g, v, c, s)
<1> SUFFICES ASSUME c # 0 PROVE Covered(g, v, c, s)
  BY DEF Covered
<1>1. PICK r \in Nat, k \in Nat :
        r <= t /\ c <= k /\ Chosen(h, r, k) /\ Share(u, h.led[r], c)
  BY DEF Covered
<1>2. Chosen(g, r, k) /\ r <= s
  BY <1>1, ChosenStays
<1>3. Share(v, h.led[r], c)
  BY <1>1 DEF Share
<1>4. r \in h.terms
  BY <1>1 DEF Chosen
<1>5. Share(v, g.led[r], c)
  BY <1>3, <1>4, LedSharedStays
<1> QED BY <1>1, <1>2, <1>5 DEF Covered

\* A leader that was elected without some entries is so for good.
LEMMA LostStays ==
  ASSUME NEW h \in History, NEW g \in History, Follows(h, g), LedSound(h),
         NEW t \in h.terms, NEW k \in Nat, k <= Len(h.led[t]), NEW s, Lost(h, t, k, s)
  PROVE  Lost(g, t, k, s)
<1>1. s \in h.terms /\ s \in g.terms /\ g.won[s] = h.won[s] /\ s \in Nat /\ t \in Nat
  BY HistoryTypes DEF Lost, Follows
<1> SUFFICES ASSUME k <= g.won[s], Share(g.led[s], g.led[t], k) PROVE FALSE
  BY <1>1 DEF Lost
<1>2. k <= Len(h.led[s])
  <2>1. h.won[s] <= Len(h.led[s])
    BY <1>1 DEF LedSound
  <2>2. h.won[s] \in Nat /\ Len(h.led[s]) \in Nat
    BY <1>1, HistoryTypes
  <2> QED BY <1>1, <2>1, <2>2
<1>3. /\ Share(h.led[s], g.led[s], Len(h.led[s])) /\ Len(h.led[s]) \in Nat
      /\ Share(h.led[t], g.led[t], Len(h.led[t])) /\ Len(h.led[t]) \in Nat
  BY <1>1, HistoryTypes DEF Follows
<1>4. /\ \A j \in 1 .. k : h.led[s][j] = g.led[s][j]
      /\ \A j \in 1 .. k : h.led[t][j] = g.led[t][j]
  <2>1. \A j \in 1 .. k : j \in 1 .. Len(h.led[s]) /\ j \in 1 .. Len(h.led[t])
    BY <1>2, <1>3
  <2>2. \A j \in 1 .. Len(h.led[s]) : h.led[s][j] = g.led[s][j]
    BY <1>3 DEF Share
  <2>3. \A j \in 1 .. Len(h.led[t]) : h.led[t][j] = g.led[t][j]
    BY <1>3 DEF Share
  <2> HIDE DEF Follows
  <2> QED BY <2>1, <2>2, <2>3
<1>5. Share(h.led[s], h.led[t], k)
  BY <1>2, <1>4 DEF Share
<1> QED BY <1>1, <1>5 DEF Lost

\* What backs a candidate, or the log v that goes on from its log u, keeps doing so.
LEMMA BacksStays ==
  ASSUME NEW h \in History, NEW g \in History, Follows(h, g), LedSound(h), HeldSound(h),
         NEW p \in Server, NEW s \in Nat, s <= h.now[p], NEW u, NEW l, Backs(h, p, s, u, l),
         NEW v, TermOf(v, l) = TermOf(u, l)
  PROVE  Backs(g, p, s, v, l)
<1> SUFFICES ASSUME NEW t \in Nat, NEW k \in 1 .. g.held[p][t], t < s
             PROVE  \/ UpToDate(v, l, g.led[t], k)
                    \/ \E r \in Nat : t < r /\ r < s /\ Lost(g, t, k, r)
  BY DEF Backs
<1>0. h.now[p] \in Nat /\ h.held[p][t] \in Nat /\ g.held[p][t] \in Nat
  BY HistoryTypes
<1>1. g.held[p][t] = h.held[p][t]
  <2>1. t < h.now[p]
    BY <1>0
  <2> QED BY <2>1 DEF Follows
<1>2. k \in 1 .. h.held[p][t] /\ h.held[p][t] # 0
  BY <1>0, <1>1
<1>3. t \in h.terms /\ h.held[p][t] <= Len(h.led[t])
  BY <1>2 DEF HeldSound
<1>4. k \in Nat /\ k # 0 /\ k <= Len(h.led[t])
  BY <1>0, <1>2, <1>3, HistoryTypes
<1>5. \/ UpToDate(u, l, h.led[t], k)
      \/ \E r \in Nat : t < r /\ r < s /\ Lost(h, t, k, r)
  BY <1>2 DEF Backs
<1>6. CASE UpToDate(u, l, h.led[t], k)
  <2>1. Share(h.led[t], h.led[t], k)
    BY <1>4 DEF Share
  <2>2. h.led[t][k] = g.led[t][k]
    <3>1. Share(h.led[t], g.led[t], k)
      BY <2>1, <1>3, <1>4, LedSharedStays
    <3> QED BY <3>1, <1>4 DEF Share
  <2>3. TermOf(g.led[t], k) = TermOf(h.led[t], k)
    BY <2>2 DEF TermOf
  <2> QED BY <1>6, <2>3 DEF UpToDate
<1>7. CASE \E r \in Nat : t < r /\ r < s /\ Lost(h, t, k, r)
  BY <1>3, <1>4, <1>7, LostStays
<1> QED BY <1>5, <1>6, <1>7

\* A history goes on from itself.
LEMMA FollowsReflexive ==
  ASSUME NEW h \in History
  PROVE  Follows(h, h)
<1>1. \A t \in h.terms : Share(h.led[t], h.led[t], Len(h.led[t]))
  <2> TAKE t \in h.terms
  <2>1. Len(h.led[t]) \in Nat
    BY HistoryTypes
  <2> QED BY <2>1 DEF Share
<1>2. \A p \in Server : h.now[p] \in Nat /\ \A t \in Nat : h.held[p][t] \in Nat
  BY HistoryTypes
<1> QED BY <1>1, <1>2 DEF Follows

\* To go on twice is to go on.
LEMMA FollowsTransitive ==
  ASSUME NEW h \in History, NEW g \in History, NEW f \in History, Follows(h, g), Follows(g, f)
  PROVE  Follows(h, f)
<1>1. h.terms \subseteq f.terms
  BY DEF Follows
<1>2. ASSUME NEW t \in h.terms
      PROVE  f.won[t] = h.won[t] /\ Share(h.led[t], f.led[t], Len(h.led[t]))
  <2>1. t \in Nat /\ t \in g.terms /\ Len(h.led[t]) \in Nat
    BY HistoryTypes DEF Follows
  <2>2. f.won[t] = h.won[t]
    BY <2>1 DEF Follows
  <2>3. Share(h.led[t], g.led[t], Len(h.led[t]))
    BY DEF Follows
  <2>4. Share(h.led[t], f.led[t], Len(h.led[t]))
    BY <2>1, <2>3, LedSharedStays
  <2> QED BY <2>2, <2>4
<1>3. ASSUME NEW p \in Server
      PROVE  h.now[p] <= f.now[p]
  <2>1. h.now[p] \in Nat /\ g.now[p] \in Nat /\ f.now[p] \in Nat
    BY HistoryTypes
  <2> QED BY <2>1 DEF Follows
<1>4. ASSUME NEW p \in Server, NEW t \in Nat
      PROVE  h.held[p][t] <= f.held[p][t] /\ (t < h.now[p] => f.held[p][t] = h.held[p][t])
  <2>1. h.now[p] \in Nat /\ g.now[p] \in Nat /\ h.now[p] <= g.now[p]
    BY HistoryTypes DEF Follows
  <2>2. h.held[p][t] \in Nat /\ g.held[p][t] \in Nat /\ f.held[p][t] \in Nat
    BY HistoryTypes
  <2>3. h.held[p][t] <= g.held[p][t] /\ g.held[p][t] <= f.held[p][t]
    BY DEF Follows
  <2>4. /\ t < h.now[p] => g.held[p][t] = h.held[p][t]
        /\ t < g.now[p] => f.held[p][t] = g.held[p][t]
    BY DEF Follows
  <2> QED BY <2>1, <2>2, <2>3, <2>4
<1> QED BY <1>1, <1>2, <1>3, <1>4 DEF Follows

\* A majority that backed a leader still does.
LEMMA WonStays ==
  ASSUME NEW h \in History, NEW g \in History, Follows(h, g), Sound(h), NEW t \in h.terms
  PROVE  \E Q \in SUBSET InitialMembers :
           /\ Electors(Q)
           /\ \A p \in Q : g.now[p] >= t /\ Backs(g, p, t, g.led[t], g.won[t])
<1>1. PICK Q \in SUBSET InitialMembers :
        Electors(Q) /\ \A p \in Q : h.now[p] >= t /\ Backs(h, p, t, h.led[t], h.won[t])
  BY DEF Sound, WonSound
<1>2. t \in Nat /\ h.won[t] \in Nat /\ Len(h.led[t]) \in Nat
  BY HistoryTypes
<1>3. g.won[t] = h.won[t] /\ h.won[t] <= Len(h.led[t])
  BY DEF Follows, Sound, LedSound
<1>4. TermOf(g.led[t], h.won[t]) = TermOf(h.led[t], h.won[t])
  <2>1. Share(h.led[t], h.led[t], h.won[t])
    BY <1>2, <1>3 DEF Share
  <2>2. Share(h.led[t], g.led[t], h.won[t])
    BY <2>1, <1>2, LedSharedStays
  <2> QED BY <2>2, <1>2, SMTT(30) DEF Share, TermOf
<1>5. ASSUME NEW p \in Q
      PROVE  g.now[p] >= t /\ Backs(g, p, t, g.led[t], g.won[t])
  <2>1. p \in Server /\ h.now[p] >= t /\ Backs(h, p, t, h.led[t], h.won[t])
    BY <1>1, ServerAssumption
  <2>2. h.now[p] \in Nat /\ g.now[p] \in Nat /\ h.now[p] <= g.now[p]
    BY <2>1, HistoryTypes DEF Follows
  <2>3. LedSound(h) /\ HeldSound(h)
    BY DEF Sound
  <2>4. Backs(g, p, t, g.led[t], h.won[t])
    BY <1>2, <1>4, <2>1, <2>2, <2>3, BacksStays
  <2> QED BY <1>2, <1>3, <2>1, <2>2, <2>4
<1> QED BY <1>1, <1>5

\* What a server has held it still holds, unless its log no longer does.
LEMMA KeptStays ==
  ASSUME NEW h \in History, NEW g \in History, Follows(h, g), Sound(h),
         NEW p \in Server, NEW t \in Nat, NEW k \in 1 .. h.held[p][t],
         Share(h.whole[p], h.led[t], k) => Share(g.whole[p], h.led[t], k)
  PROVE  \/ Share(g.whole[p], g.led[t], k)
         \/ \E r \in Nat : t < r /\ r <= g.now[p] /\ Lost(g, t, k, r)
<1>1. h.held[p][t] \in Nat /\ Len(h.led[t]) \in Nat
  BY HistoryTypes
<1>2. k \in Nat /\ h.held[p][t] # 0
  BY <1>1
<1>3. t \in h.terms /\ h.held[p][t] <= Len(h.led[t])
  BY <1>2 DEF Sound, HeldSound
<1>4. k <= Len(h.led[t])
  BY <1>1, <1>3
<1>5. \/ Share(h.whole[p], h.led[t], k)
      \/ \E r \in Nat : t < r /\ r <= h.now[p] /\ Lost(h, t, k, r)
  BY DEF Sound, Kept
<1>6. CASE Share(h.whole[p], h.led[t], k)
  BY <1>2, <1>3, <1>6, LedSharedStays
<1>7. ASSUME NEW r \in Nat, t < r, r <= h.now[p], Lost(h, t, k, r)
      PROVE  r <= g.now[p] /\ Lost(g, t, k, r)
  <2>1. h.now[p] \in Nat /\ g.now[p] \in Nat /\ h.now[p] <= g.now[p]
    BY HistoryTypes DEF Follows
  <2>2. LedSound(h)
    BY DEF Sound
  <2> QED BY <1>2, <1>3, <1>4, <1>7, <2>1, <2>2, LostStays
<1> QED BY <1>5, <1>6, <1>7

\* The beginning of a log that leaders wrote was written by leaders.
LEMMA KnownPart ==
  ASSUME NEW h, NEW u \in Seq(LogEntry), Known(h, u), NEW w \in Seq(LogEntry),
         Share(w, u, Len(w))
  PROVE  Known(h, w)
<1> SUFFICES ASSUME NEW k \in 1 .. Len(w)
             PROVE  w[k].term \in h.terms /\ Share(w, h.led[w[k].term], k)
  BY DEF Known
<1>1. Len(w) <= Len(u) /\ \A j \in 1 .. Len(w) : w[j] = u[j]
  BY DEF Share
<1>2. k \in 1 .. Len(u) /\ w[k] = u[k]
  BY <1>1
<1>3. u[k].term \in h.terms /\ Share(u, h.led[u[k].term], k)
  BY <1>2 DEF Known
<1> QED BY <1>1, <1>2, <1>3 DEF Share

-----------------------------------------------------------------------------
(* The four ways in which a history goes on *)

\* Server p reaches term t.
Raised(h, p, t) == [h EXCEPT !.now = [@ EXCEPT ![p] = t]]

\* Server p now has log w, k entries of which it has from the leader of its term.
Took(h, p, w, k) ==
  LET mine == [h.held[p] EXCEPT ![h.now[p]] = Larger(h.held[p][h.now[p]], k)]
  IN [h EXCEPT !.whole = [@ EXCEPT ![p] = w], !.held = [@ EXCEPT ![p] = mine]]

\* Server p is elected in its term.
Elevated(h, p) ==
  LET mine == [h.held[p] EXCEPT ![h.now[p]] = Len(h.whole[p])]
  IN [h EXCEPT !.terms = @ \cup {h.now[p]},
               !.led = [@ EXCEPT ![h.now[p]] = h.whole[p]],
               !.won = [@ EXCEPT ![h.now[p]] = Len(h.whole[p])],
               !.held = [@ EXCEPT ![p] = mine]]

\* Server p, the leader of its term, appends entry e.
Extended(h, p, e) ==
  LET mine == [h.held[p] EXCEPT ![h.now[p]] = Len(h.whole[p]) + 1]
      longer == Append(h.whole[p], e)
  IN [h EXCEPT !.led = [@ EXCEPT ![h.now[p]] = longer],
               !.whole = [@ EXCEPT ![p] = longer],
               !.held = [@ EXCEPT ![p] = mine]]

\* The terms never go back.
LEMMA RaisedSound ==
  ASSUME NEW h, Sound(h), NEW p \in Server, NEW t \in Nat, h.now[p] <= t
  PROVE  LET g == Raised(h, p, t)
         IN /\ Sound(g) /\ Follows(h, g)
            /\ g.terms = h.terms /\ g.led = h.led /\ g.won = h.won /\ g.held = h.held
            /\ g.whole = h.whole /\ g.now = [h.now EXCEPT ![p] = t]
<1> DEFINE g == Raised(h, p, t)
<1>0. h \in History
  BY DEF Sound
<1>1. /\ g.terms = h.terms /\ g.led = h.led /\ g.won = h.won /\ g.held = h.held
      /\ g.whole = h.whole /\ g.now = [h.now EXCEPT ![p] = t]
  BY <1>0 DEF History, Raised
<1>2. g \in History
  <2>1. [h.now EXCEPT ![p] = t] \in [Server -> Nat]
    BY <1>0 DEF History
  <2> DEFINE f == [h.now EXCEPT ![p] = t]
  <2>2. g = [h EXCEPT !.now = f]
    BY DEF Raised
  <2> HIDE DEF f, g
  <2> QED BY <1>0, <2>1, <2>2 DEF History, f
<1> HIDE DEF g
<1>3. \A q \in Server : h.now[q] \in Nat /\ g.now[q] \in Nat /\ h.now[q] <= g.now[q]
  <2>1. h.now \in [Server -> Nat]
    BY <1>0 DEF History
  <2> QED BY <1>1, <2>1
<1>4. Follows(h, g)
  BY <1>0, <1>1, <1>3, FollowsReflexive DEF Follows
<1>5. \A u : Known(g, u) <=> Known(h, u)
  BY <1>1 DEF Known
<1>6. LedSound(g)
  BY <1>1, <1>5 DEF Sound, LedSound
<1>7. WholeSound(g)
  <2> SUFFICES ASSUME NEW q \in Server
               PROVE  /\ Known(g, g.whole[q])
                      /\ \A k \in 1 .. Len(g.whole[q]) : g.whole[q][k].term <= g.now[q]
    BY DEF WholeSound
  <2>1. /\ Known(h, h.whole[q])
        /\ \A k \in 1 .. Len(h.whole[q]) : h.whole[q][k].term <= h.now[q]
    BY DEF Sound, WholeSound
  <2>2. \A k \in 1 .. Len(h.whole[q]) : h.whole[q][k].term \in Nat
    BY <1>0, HistoryTypes, EntryTypes
  <2> QED BY <1>1, <1>3, <1>5, <2>1, <2>2
<1>8. HeldSound(g)
  <2> SUFFICES ASSUME NEW q \in Server, NEW s \in Nat, g.held[q][s] # 0
               PROVE  s \in g.terms /\ s <= g.now[q] /\ g.held[q][s] <= Len(g.led[s])
    BY DEF HeldSound
  <2>1. s \in h.terms /\ s <= h.now[q] /\ h.held[q][s] <= Len(h.led[s])
    BY <1>1 DEF Sound, HeldSound
  <2> QED BY <1>1, <1>3, <2>1
<1>9. Kept(g)
  BY <1>0, <1>1, <1>2, <1>4, KeptStays DEF Kept
<1>10. WonSound(g)
  BY <1>0, <1>1, <1>2, <1>4, WonStays DEF WonSound
<1> QED BY <1>1, <1>2, <1>4, <1>6, <1>7, <1>8, <1>9, <1>10 DEF Sound, g

\* A log that p takes from the leader of its term, whose entries replace others only where
\* the two logs differ.
Takes(h, p, w, k) ==
  LET u == h.led[h.now[p]]
  IN /\ h.now[p] \in h.terms /\ w \in Seq(LogEntry) /\ k \in Nat
     /\ Share(w, u, k)
     /\ \/ w = h.whole[p]
        \/ Share(w, u, Len(w)) /\ ~Share(h.whole[p], u, Len(w))

\* What a server takes from its leader costs it nothing that it has held, unless its
\* leader was elected without that.
LEMMA TookSound ==
  ASSUME NEW h, Sound(h), NEW p \in Server, NEW w, NEW k, Takes(h, p, w, k)
  PROVE  LET g == Took(h, p, w, k)
         IN /\ Sound(g) /\ Follows(h, g)
            /\ g.terms = h.terms /\ g.led = h.led /\ g.won = h.won /\ g.now = h.now
            /\ g.whole = [h.whole EXCEPT ![p] = w]
            /\ k <= g.held[p][h.now[p]]
<1> DEFINE g == Took(h, p, w, k)
           t == h.now[p]
           u == h.led[t]
           most == Larger(h.held[p][t], k)
           mine == [h.held[p] EXCEPT ![t] = most]
           all == [h.held EXCEPT ![p] = mine]
           logs == [h.whole EXCEPT ![p] = w]
<1>0. h \in History
  BY DEF Sound
<1>1. /\ t \in h.terms /\ t \in Nat /\ w \in Seq(LogEntry) /\ Len(w) \in Nat /\ k \in Nat
      /\ Share(w, u, k) /\ u \in Seq(LogEntry) /\ Len(u) \in Nat /\ k <= Len(u)
  <2>1. t \in h.terms /\ w \in Seq(LogEntry) /\ k \in Nat /\ Share(w, u, k)
    BY DEF Takes
  <2>2. t \in Nat
    BY <1>0, HistoryTypes
  <2>3. u \in Seq(LogEntry) /\ Len(u) \in Nat
    BY <1>0, <2>2, HistoryTypes
  <2>4. k <= Len(u)
    BY <2>1 DEF Share
  <2>5. Len(w) \in Nat
    BY <2>1
  <2> QED BY <2>1, <2>2, <2>3, <2>4, <2>5
<1>2. \/ w = h.whole[p]
      \/ Share(w, u, Len(w)) /\ ~Share(h.whole[p], u, Len(w))
  BY DEF Takes
<1>3. /\ h.held[p] \in [Nat -> Nat] /\ h.held \in [Server -> [Nat -> Nat]]
      /\ h.whole \in [Server -> Seq(LogEntry)]
  BY <1>0 DEF History
<1>4. h.held[p][t] \in Nat /\ most \in Nat /\ h.held[p][t] <= most /\ k <= most
      /\ (most = k \/ most = h.held[p][t])
  <2>1. h.held[p][t] \in Nat /\ k \in Nat
    BY <1>1, <1>3
  <2> QED BY <2>1 DEF Larger
<1>5. g = [h EXCEPT !.whole = logs, !.held = all]
  BY Zenon DEF Took
<1> HIDE DEF most
<1>6. mine \in [Nat -> Nat] /\ all \in [Server -> [Nat -> Nat]]
      /\ logs \in [Server -> Seq(LogEntry)]
  BY <1>1, <1>3, <1>4
<1>7. /\ g.terms = h.terms /\ g.led = h.led /\ g.won = h.won /\ g.now = h.now
      /\ g.whole = logs /\ g.held = all /\ g \in History
  <2> HIDE DEF g, mine, all, logs
  <2> QED BY <1>0, <1>5, <1>6 DEF History
<1>8. \A q \in Server : q # p => g.whole[q] = h.whole[q] /\ g.held[q] = h.held[q]
  BY <1>3, <1>7
<1>9. g.whole[p] = w /\ g.held[p][t] = most /\ \A s \in Nat \ {t} : g.held[p][s] = h.held[p][s]
  BY <1>1, <1>3, <1>7, ZenonT(60)
<1> HIDE DEF g, mine, all, logs
<1>10. \A q \in Server : h.now[q] \in Nat
  BY <1>0, HistoryTypes
<1>11. Follows(h, g)
  <2>1. Follows(h, h)
    BY <1>0, FollowsReflexive
  <2>2. ASSUME NEW q \in Server, NEW s \in Nat
        PROVE  h.held[q][s] <= g.held[q][s] /\ (s < h.now[q] => g.held[q][s] = h.held[q][s])
    <3>1. h.held[q][s] \in Nat
      BY <1>0, HistoryTypes
    <3> QED BY <3>1, <1>1, <1>4, <1>8, <1>9
  <2> QED BY <1>7, <1>10, <2>1, <2>2 DEF Follows
<1>12. \A v : Known(g, v) <=> Known(h, v)
  BY <1>7 DEF Known
<1>13. LedSound(g)
  BY <1>7, <1>12 DEF Sound, LedSound
<1>14. WholeSound(g)
  <2>1. ASSUME NEW q \in Server
        PROVE  /\ Known(h, h.whole[q])
               /\ \A j \in 1 .. Len(h.whole[q]) : h.whole[q][j].term <= h.now[q]
    BY DEF Sound, WholeSound
  <2>2. ASSUME Share(w, u, Len(w))
        PROVE  Known(h, w) /\ \A j \in 1 .. Len(w) : w[j].term <= t
    <3>1. Known(h, u) /\ h.won[t] \in Nat
      BY <1>0, <1>1, HistoryTypes DEF Sound, LedSound
    <3>2. Known(h, w)
      BY <1>1, <2>2, <3>1, KnownPart
    <3>3. ASSUME NEW j \in 1 .. Len(w) PROVE w[j].term <= t
      <4>1. j \in 1 .. Len(u) /\ w[j] = u[j]
        BY <1>1, <2>2 DEF Share
      <4>2. IF j <= h.won[t] THEN u[j].term < t ELSE u[j].term = t
        BY <1>1, <4>1 DEF Sound, LedSound
      <4>3. u[j].term \in Nat
        BY <1>1, <4>1, EntryTypes
      <4> QED BY <1>1, <4>1, <4>2, <4>3
    <3> QED BY <3>2, <3>3
  <2>3. Known(h, w) /\ \A j \in 1 .. Len(w) : w[j].term <= t
    BY <1>2, <2>1, <2>2
  <2> QED BY <1>7, <1>8, <1>9, <1>12, <2>1, <2>3 DEF WholeSound
<1>15. HeldSound(g)
  <2> SUFFICES ASSUME NEW q \in Server, NEW s \in Nat, g.held[q][s] # 0
               PROVE  s \in g.terms /\ s <= g.now[q] /\ g.held[q][s] <= Len(g.led[s])
    BY DEF HeldSound
  <2>1. h.held[q][s] # 0 =>
          s \in h.terms /\ s <= h.now[q] /\ h.held[q][s] <= Len(h.led[s])
    BY DEF Sound, HeldSound
  <2>2. CASE q = p /\ s = t
    BY <1>1, <1>4, <1>7, <1>9, <2>1, <2>2
  <2>3. CASE ~(q = p /\ s = t)
    BY <1>7, <1>8, <1>9, <2>1, <2>3
  <2> QED BY <2>2, <2>3
<1>16. Kept(g)
  <2> SUFFICES ASSUME NEW q \in Server, NEW s \in Nat, NEW j \in 1 .. g.held[q][s]
               PROVE  \/ Share(g.whole[q], g.led[s], j)
                      \/ \E r \in Nat : s < r /\ r <= g.now[q] /\ Lost(g, s, j, r)
    BY DEF Kept
  <2>1. CASE q # p \/ (w = h.whole[p] /\ s # t)
    <3>1. j \in 1 .. h.held[q][s] /\ g.whole[q] = h.whole[q]
      BY <2>1, <1>8, <1>9
    <3> QED BY <1>0, <1>7, <1>11, <3>1, KeptStays
  <2>2. CASE q = p /\ s = t /\ j <= k
    <3>1. Share(w, u, j)
      <4>1. j \in Nat /\ g.held[q][s] \in Nat
        BY <1>7, HistoryTypes
      <4> QED BY <1>1, <2>2, <4>1 DEF Share
    <3> QED BY <2>2, <3>1, <1>7, <1>9
  <2>3. CASE q = p /\ ~(s = t /\ j <= k)
    <3>1. j \in 1 .. h.held[p][s] /\ h.held[p][s] \in Nat /\ j \in Nat
      <4>1. h.held[p][s] \in Nat /\ g.held[p][s] \in Nat
        BY <1>0, <1>7, HistoryTypes
      <4>2. CASE s = t
        BY <2>3, <1>1, <1>4, <1>9, <4>1, <4>2, SMTT(30)
      <4>3. CASE s # t
        BY <2>3, <1>9, <4>1, <4>3
      <4> QED BY <4>2, <4>3
    <3>2. s \in h.terms /\ s <= t
      <4>1. h.held[p][s] # 0
        BY <3>1
      <4> QED BY <4>1 DEF Sound, HeldSound
    <3>3. CASE Lost(h, s, j, t) /\ s # t
      <4>1. Lost(g, s, j, t)
        BY <1>7, <3>3 DEF Lost
      <4> QED BY <1>1, <1>7, <2>3, <3>2, <3>3, <4>1
    <3>4. CASE s = t \/ ~Lost(h, s, j, t)
      <4>1. Share(h.whole[p], h.led[s], j) => Share(w, h.led[s], j)
        <5> SUFFICES ASSUME Share(h.whole[p], h.led[s], j), w # h.whole[p]
                     PROVE  Share(w, h.led[s], j)
          OBVIOUS
        <5>1. Share(w, u, Len(w)) /\ ~Share(h.whole[p], u, Len(w))
          BY <1>2
        <5>2. Share(u, h.led[s], j)
          <6>1. Len(h.led[s]) \in Nat
            BY <1>0, HistoryTypes
          <6>2. CASE s = t
            <7>1. j <= Len(u)
              BY <6>2 DEF Share
            <7> QED BY <6>2, <7>1 DEF Share
          <6>3. CASE ~Lost(h, s, j, t)
            BY <6>3, <1>1 DEF Lost
          <6> QED BY <3>4, <6>2, <6>3
        <5>3. Share(h.whole[p], u, j)
          BY <5>2 DEF Share
        <5>4. ~(Len(w) <= j)
          <6> SUFFICES ASSUME Len(w) <= j PROVE FALSE
            OBVIOUS
          <6>1. Len(h.whole[p]) \in Nat /\ j <= Len(h.whole[p]) /\ j <= Len(u)
            BY <1>0, <5>3, HistoryTypes DEF Share
          <6>2. Len(w) <= Len(h.whole[p]) /\ Len(w) <= Len(u)
            BY <1>1, <3>1, <6>1
          <6>3. \A i \in 1 .. Len(w) : i \in 1 .. j
            BY <1>1, <3>1
          <6>4. \A i \in 1 .. j : h.whole[p][i] = u[i]
            BY <5>3 DEF Share
          <6>5. Share(h.whole[p], u, Len(w))
            BY <6>2, <6>3, <6>4 DEF Share
          <6> QED BY <5>1, <6>5
        <5>5. j <= Len(w) /\ \A i \in 1 .. j : i \in 1 .. Len(w)
          BY <1>1, <3>1, <5>4
        <5>6. \A i \in 1 .. j : w[i] = u[i]
          BY <5>1, <5>5 DEF Share
        <5> QED BY <5>2, <5>5, <5>6 DEF Share
      <4> QED BY <1>0, <1>7, <1>9, <1>11, <2>3, <3>1, <4>1, KeptStays
    <3> QED BY <3>3, <3>4
  <2> QED BY <2>1, <2>2, <2>3
<1>17. WonSound(g)
  BY <1>0, <1>7, <1>11, WonStays DEF WonSound
<1> QED BY <1>4, <1>7, <1>9, <1>11, <1>13, <1>14, <1>15, <1>16, <1>17 DEF Sound, g, logs

\* A majority of term t, whose log p's is at least as up to date as.
Elects(h, p) ==
  /\ h.now[p] \notin h.terms
  /\ \E Q \in SUBSET InitialMembers :
       /\ Electors(Q)
       /\ \A q \in Q : /\ h.now[q] >= h.now[p]
                       /\ Backs(h, q, h.now[p], h.whole[p], Len(h.whole[p]))

\* The leader of a new term is the first of it, and a majority backs the log it has.
LEMMA ElevatedSound ==
  ASSUME NEW h, Sound(h), NEW p \in Server, Elects(h, p)
  PROVE  LET g == Elevated(h, p)
         IN /\ Sound(g) /\ Follows(h, g)
            /\ g.terms = h.terms \cup {h.now[p]} /\ g.now = h.now /\ g.whole = h.whole
            /\ g.led[h.now[p]] = h.whole[p]
            /\ \A t \in h.terms : g.led[t] = h.led[t]
            /\ g.held[p][h.now[p]] = Len(h.whole[p])
<1> DEFINE g == Elevated(h, p)
           t == h.now[p]
           w == h.whole[p]
           mine == [h.held[p] EXCEPT ![t] = Len(w)]
           all == [h.held EXCEPT ![p] = mine]
           ll == [h.led EXCEPT ![t] = w]
           ww == [h.won EXCEPT ![t] = Len(w)]
           tt == h.terms \cup {t}
<1>0. h \in History /\ LedSound(h) /\ WholeSound(h) /\ HeldSound(h)
  BY DEF Sound
<1>1. t \in Nat /\ w \in Seq(LogEntry) /\ Len(w) \in Nat /\ t \notin h.terms
  BY <1>0, HistoryTypes DEF Elects
<1>2. /\ h.held[p] \in [Nat -> Nat] /\ h.held \in [Server -> [Nat -> Nat]]
      /\ h.led \in [Nat -> Seq(LogEntry)] /\ h.won \in [Nat -> Nat]
      /\ h.terms \in SUBSET Nat /\ h.now \in [Server -> Nat]
  BY <1>0 DEF History
<1>3. g = [h EXCEPT !.terms = tt, !.led = ll, !.won = ww, !.held = all]
  BY Zenon DEF Elevated
<1>4. /\ mine \in [Nat -> Nat] /\ all \in [Server -> [Nat -> Nat]]
      /\ ll \in [Nat -> Seq(LogEntry)] /\ ww \in [Nat -> Nat] /\ tt \in SUBSET Nat
  BY <1>1, <1>2
<1>5. /\ g.terms = tt /\ g.led = ll /\ g.won = ww /\ g.held = all
      /\ g.whole = h.whole /\ g.now = h.now /\ g \in History
  <2> HIDE DEF g, mine, all, ll, ww, tt
  <2> QED BY <1>0, <1>3, <1>4 DEF History
<1>6. /\ \A s \in Nat \ {t} : g.led[s] = h.led[s] /\ g.won[s] = h.won[s]
      /\ g.led[t] = w /\ g.won[t] = Len(w)
  BY <1>1, <1>2, <1>5
<1>7. /\ g.held[p][t] = Len(w) /\ \A s \in Nat \ {t} : g.held[p][s] = h.held[p][s]
      /\ \A q \in Server \ {p} : g.held[q] = h.held[q]
  <2>1. g.held[p] = mine /\ \A q \in Server \ {p} : g.held[q] = h.held[q]
    BY <1>2, <1>5
  <2>2. mine[t] = Len(w) /\ \A s \in Nat \ {t} : mine[s] = h.held[p][s]
    BY <1>1, <1>2
  <2> QED BY <2>1, <2>2
<1>8. \A s \in h.terms : s \in Nat \ {t}
  BY <1>1, <1>2
<1> HIDE DEF g, mine, all, ll, ww
<1>9. \A q \in Server : h.held[q][t] = 0
  BY <1>0, <1>1 DEF HeldSound
<1>10. Follows(h, g)
  <2>1. Follows(h, h)
    BY <1>0, FollowsReflexive
  <2>2. ASSUME NEW q \in Server, NEW s \in Nat
        PROVE  h.held[q][s] <= g.held[q][s] /\ (s < h.now[q] => g.held[q][s] = h.held[q][s])
    <3>1. h.held[q][s] \in Nat
      BY <1>0, HistoryTypes
    <3>2. CASE q = p /\ s = t
      BY <1>1, <1>7, <1>9, <3>2
    <3>3. CASE ~(q = p /\ s = t)
      BY <1>7, <3>1, <3>3
    <3> QED BY <3>2, <3>3
  <2> QED BY <1>5, <1>6, <1>8, <2>1, <2>2 DEF Follows
<1>11. ASSUME NEW q \in Server PROVE Known(g, h.whole[q])
  <2>1. Known(h, h.whole[q]) /\ h.whole[q] \in Seq(LogEntry)
    BY <1>0, HistoryTypes DEF WholeSound
  <2> QED BY <1>0, <1>10, <2>1, KnownStays
<1>12. LedSound(g)
  <2> SUFFICES ASSUME NEW s \in g.terms
               PROVE  /\ Known(g, g.led[s])
                      /\ g.won[s] <= Len(g.led[s])
                      /\ \A k \in 1 .. Len(g.led[s]) :
                           IF k <= g.won[s] THEN g.led[s][k].term < s ELSE g.led[s][k].term = s
    BY DEF LedSound
  <2>1. CASE s = t
    <3>1. ASSUME NEW k \in 1 .. Len(w) PROVE w[k].term < t
      <4>1. w[k].term <= t /\ w[k].term \in h.terms
        BY <1>0 DEF WholeSound, Known
      <4> QED BY <4>1, <1>1, <1>8
    <3> QED BY <1>1, <1>6, <1>11, <2>1, <3>1, SMTT(30)
  <2>2. CASE s \in h.terms
    <3>1. /\ Known(h, h.led[s]) /\ h.won[s] <= Len(h.led[s])
          /\ \A k \in 1 .. Len(h.led[s]) :
               IF k <= h.won[s] THEN h.led[s][k].term < s ELSE h.led[s][k].term = s
      BY <1>0, <2>2 DEF LedSound
    <3>2. h.led[s] \in Seq(LogEntry) /\ g.led[s] = h.led[s] /\ g.won[s] = h.won[s]
      BY <1>0, <1>6, <1>8, <2>2, HistoryTypes
    <3>3. Known(g, h.led[s])
      BY <1>0, <1>10, <3>1, <3>2, KnownStays
    <3> QED BY <3>1, <3>2, <3>3
  <2> QED BY <1>5, <2>1, <2>2
<1>13. WholeSound(g)
  BY <1>0, <1>5, <1>11 DEF WholeSound
<1>14. HeldSound(g)
  <2> SUFFICES ASSUME NEW q \in Server, NEW s \in Nat, g.held[q][s] # 0
               PROVE  s \in g.terms /\ s <= g.now[q] /\ g.held[q][s] <= Len(g.led[s])
    BY DEF HeldSound
  <2>1. CASE q = p /\ s = t
    BY <1>1, <1>5, <1>6, <1>7, <2>1
  <2>2. CASE ~(q = p /\ s = t)
    <3>1. g.held[q][s] = h.held[q][s]
      BY <1>7, <2>2
    <3>2. s \in h.terms /\ s <= h.now[q] /\ h.held[q][s] <= Len(h.led[s])
      BY <1>0, <3>1 DEF HeldSound
    <3> QED BY <1>5, <1>6, <1>8, <3>1, <3>2
  <2> QED BY <2>1, <2>2
<1>15. Kept(g)
  <2> SUFFICES ASSUME NEW q \in Server, NEW s \in Nat, NEW j \in 1 .. g.held[q][s]
               PROVE  \/ Share(g.whole[q], g.led[s], j)
                      \/ \E r \in Nat : s < r /\ r <= g.now[q] /\ Lost(g, s, j, r)
    BY DEF Kept
  <2>1. CASE q = p /\ s = t
    <3>1. Share(w, w, j)
      BY <1>1, <1>7, <2>1 DEF Share
    <3> QED BY <1>5, <1>6, <2>1, <3>1
  <2>2. CASE ~(q = p /\ s = t)
    <3>1. j \in 1 .. h.held[q][s]
      BY <1>7, <2>2
    <3> QED BY <1>0, <1>5, <1>10, <3>1, KeptStays
  <2> QED BY <2>1, <2>2
<1>16. WonSound(g)
  <2> SUFFICES ASSUME NEW s \in g.terms
               PROVE  \E Q \in SUBSET InitialMembers :
                        /\ Electors(Q)
                        /\ \A q \in Q : g.now[q] >= s /\ Backs(g, q, s, g.led[s], g.won[s])
    BY DEF WonSound
  <2>1. CASE s \in h.terms
    BY <1>0, <1>5, <1>10, <2>1, WonStays
  <2>2. CASE s = t
    <3>1. PICK Q \in SUBSET InitialMembers :
            /\ Electors(Q)
            /\ \A q \in Q : h.now[q] >= t /\ Backs(h, q, t, w, Len(w))
      BY DEF Elects
    <3>2. ASSUME NEW q \in Q PROVE g.now[q] >= t /\ Backs(g, q, t, w, Len(w))
      <4>1. q \in Server /\ h.now[q] >= t /\ Backs(h, q, t, w, Len(w)) /\ h.now[q] \in Nat
        BY <1>2, <3>1, ServerAssumption
      <4>2. t <= h.now[q]
        BY <1>1, <4>1
      <4>3. Backs(g, q, t, w, Len(w))
        BY <1>0, <1>1, <1>5, <1>10, <4>1, <4>2, BacksStays
      <4> QED BY <1>5, <4>1, <4>3
    <3> QED BY <1>6, <2>2, <3>1, <3>2
  <2> QED BY <1>5, <2>1, <2>2
<1> QED BY <1>5, <1>6, <1>7, <1>8, <1>10, <1>12, <1>13, <1>14, <1>15, <1>16 DEF Sound, g

\* The log of p is that of the leader of its term, and e could be the next entry of it.
Extends(h, p, e) ==
  h.now[p] \in h.terms /\ h.whole[p] = h.led[h.now[p]] /\ e.term = h.now[p]

\* A leader adds to the log of its term, and the others keep what they have of it.
LEMMA ExtendedSound ==
  ASSUME NEW h, Sound(h), NEW p \in Server, NEW e \in LogEntry, Extends(h, p, e)
  PROVE  LET g == Extended(h, p, e)
             u == Append(h.whole[p], e)
         IN /\ Sound(g) /\ Follows(h, g)
            /\ g.terms = h.terms /\ g.now = h.now /\ g.whole = [h.whole EXCEPT ![p] = u]
            /\ g.led[h.now[p]] = u /\ \A t \in h.terms \ {h.now[p]} : g.led[t] = h.led[t]
            /\ g.held[p][h.now[p]] = Len(u)
<1> DEFINE g == Extended(h, p, e)
           t == h.now[p]
           w == h.whole[p]
           u == Append(w, e)
           mine == [h.held[p] EXCEPT ![t] = Len(w) + 1]
           all == [h.held EXCEPT ![p] = mine]
           ll == [h.led EXCEPT ![t] = u]
           logs == [h.whole EXCEPT ![p] = u]
<1>0. h \in History /\ LedSound(h) /\ WholeSound(h) /\ HeldSound(h)
  BY DEF Sound
<1>1. t \in Nat /\ w \in Seq(LogEntry) /\ Len(w) \in Nat /\ t \in h.terms /\ w = h.led[t]
      /\ e.term = t
  BY <1>0, HistoryTypes DEF Extends
<1>2. /\ h.held[p] \in [Nat -> Nat] /\ h.held \in [Server -> [Nat -> Nat]]
      /\ h.led \in [Nat -> Seq(LogEntry)] /\ h.whole \in [Server -> Seq(LogEntry)]
      /\ h.terms \in SUBSET Nat /\ h.now \in [Server -> Nat]
  BY <1>0 DEF History
<1>3. g = [h EXCEPT !.led = ll, !.whole = logs, !.held = all]
  BY Zenon DEF Extended
<1>u. /\ u \in Seq(LogEntry) /\ Len(u) = Len(w) + 1 /\ u[Len(w) + 1] = e
      /\ \A k \in 1 .. Len(w) : u[k] = w[k]
  BY <1>1, SMTT(30)
<1>4. /\ mine \in [Nat -> Nat] /\ all \in [Server -> [Nat -> Nat]]
      /\ ll \in [Nat -> Seq(LogEntry)] /\ logs \in [Server -> Seq(LogEntry)]
  <2>1. Len(w) + 1 \in Nat
    BY <1>1
  <2>2. mine \in [Nat -> Nat] /\ all \in [Server -> [Nat -> Nat]]
    BY <1>2, <2>1
  <2> HIDE DEF u
  <2>3. ll \in [Nat -> Seq(LogEntry)] /\ logs \in [Server -> Seq(LogEntry)]
    BY <1>2, <1>u
  <2> QED BY <2>2, <2>3
<1>5. /\ g.terms = h.terms /\ g.led = ll /\ g.won = h.won /\ g.held = all
      /\ g.whole = logs /\ g.now = h.now /\ g \in History
  <2> HIDE DEF g, mine, all, ll, logs
  <2> QED BY <1>0, <1>3, <1>4 DEF History
<1> HIDE DEF u
<1>6. g.led[t] = u /\ \A s \in Nat \ {t} : g.led[s] = h.led[s]
  BY <1>1, <1>2, <1>5
<1>7. /\ g.held[p][t] = Len(u) /\ \A s \in Nat \ {t} : g.held[p][s] = h.held[p][s]
      /\ \A q \in Server \ {p} : g.held[q] = h.held[q] /\ g.whole[q] = h.whole[q]
      /\ g.whole[p] = u
  <2>1. g.held[p] = mine /\ \A q \in Server \ {p} : g.held[q] = h.held[q]
    BY <1>2, <1>5
  <2>2. mine[t] = Len(u) /\ \A s \in Nat \ {t} : mine[s] = h.held[p][s]
    BY <1>1, <1>2, <1>u
  <2>3. g.whole[p] = u /\ \A q \in Server \ {p} : g.whole[q] = h.whole[q]
    BY <1>2, <1>5
  <2> QED BY <2>1, <2>2, <2>3
<1> HIDE DEF g, mine, all, ll
<1>8. \A s \in h.terms : s \in Nat
  BY <1>2
<1>9. h.held[p][t] \in Nat /\ h.held[p][t] <= Len(w)
  <2>1. h.held[p][t] \in Nat
    BY <1>1, <1>2
  <2>2. h.held[p][t] # 0 => h.held[p][t] <= Len(h.led[t])
    BY <1>0, <1>1 DEF HeldSound
  <2> QED BY <1>1, <2>1, <2>2
<1>10. Follows(h, g)
  <2>1. Follows(h, h)
    BY <1>0, FollowsReflexive
  <2>2. ASSUME NEW q \in Server, NEW s \in Nat
        PROVE  h.held[q][s] <= g.held[q][s] /\ (s < h.now[q] => g.held[q][s] = h.held[q][s])
    <3>1. h.held[q][s] \in Nat
      BY <1>0, HistoryTypes
    <3>2. CASE q = p /\ s = t
      BY <1>1, <1>u, <1>7, <1>9, <3>2
    <3>3. CASE ~(q = p /\ s = t)
      BY <1>7, <3>1, <3>3
    <3> QED BY <3>2, <3>3
  <2>3. Share(w, u, Len(w))
    <3>1. Len(w) <= Len(w) /\ Len(w) <= Len(u)
      <4>1. Len(w) \in Nat
        BY <1>1
      <4>2. Len(u) = Len(w) + 1
        BY <1>u
      <4> HIDE DEF w
      <4> QED BY <4>1, <4>2
    <3> QED BY <3>1, <1>u DEF Share
  <2>4. \A s \in h.terms : Share(h.led[s], g.led[s], Len(h.led[s]))
    BY <1>1, <1>6, <1>8, <2>1, <2>3 DEF Follows
  <2> QED BY <1>5, <2>1, <2>2, <2>4 DEF Follows
<1>11. \A v \in Seq(LogEntry) : Known(h, v) => Known(g, v)
  BY <1>0, <1>10, KnownStays
<1>12. Known(g, u)
  <2>1. Known(g, w)
    BY <1>0, <1>1, <1>11 DEF LedSound
  <2> SUFFICES ASSUME NEW k \in 1 .. Len(u)
               PROVE  u[k].term \in g.terms /\ Share(u, g.led[u[k].term], k)
    BY DEF Known
  <2>2. CASE k \in 1 .. Len(w)
    <3>1. u[k] = w[k] /\ w[k].term \in g.terms /\ Share(w, g.led[w[k].term], k)
      BY <1>u, <2>1, <2>2 DEF Known
    <3>2. \A j \in 1 .. k : j \in 1 .. Len(w)
      BY <1>1, <2>2
    <3>3. \A j \in 1 .. k : u[j] = w[j]
      BY <1>u, <3>2
    <3>4. k <= Len(u)
      OBVIOUS
    <3>5. k <= Len(g.led[w[k].term]) /\ \A j \in 1 .. k : w[j] = g.led[w[k].term][j]
      BY <3>1 DEF Share
    <3>6. \A j \in 1 .. k : u[j] = g.led[w[k].term][j]
      BY <3>3, <3>5
    <3>7. Share(u, g.led[w[k].term], k)
      BY <3>4, <3>5, <3>6 DEF Share
    <3> QED BY <3>1, <3>7
  <2>3. CASE k = Len(u)
    <3>1. u[k] = e /\ k \in Nat
      BY <1>1, <1>u, <2>3
    <3>2. Share(u, u, k)
      BY <2>3, <3>1 DEF Share
    <3> QED BY <1>1, <1>5, <1>6, <3>1, <3>2
  <2> QED BY <1>1, <1>u, <2>2, <2>3, SMTT(30)
<1>13. LedSound(g)
  <2> SUFFICES ASSUME NEW s \in g.terms
               PROVE  /\ Known(g, g.led[s])
                      /\ g.won[s] <= Len(g.led[s])
                      /\ \A k \in 1 .. Len(g.led[s]) :
                           IF k <= g.won[s] THEN g.led[s][k].term < s ELSE g.led[s][k].term = s
    BY DEF LedSound
  <2>1. /\ Known(h, h.led[s]) /\ h.won[s] <= Len(h.led[s])
        /\ \A k \in 1 .. Len(h.led[s]) :
             IF k <= h.won[s] THEN h.led[s][k].term < s ELSE h.led[s][k].term = s
    BY <1>0, <1>5 DEF LedSound
  <2>2. s \in Nat /\ h.led[s] \in Seq(LogEntry) /\ h.won[s] \in Nat
    BY <1>0, <1>5, <1>8, HistoryTypes
  <2>3. CASE s = t
    <3>1. h.won[t] <= Len(u)
      BY <1>1, <1>u, <2>1, <2>2, <2>3
    <3>2. ASSUME NEW k \in 1 .. Len(u)
          PROVE  IF k <= h.won[t] THEN u[k].term < t ELSE u[k].term = t
      <4>1. CASE k \in 1 .. Len(w)
        BY <1>1, <1>u, <2>1, <2>3, <4>1
      <4>2. CASE k = Len(w) + 1
        BY <1>1, <1>u, <2>1, <2>2, <2>3, <4>2, SMTT(30)
      <4>3. k \in 1 .. Len(w) \/ k = Len(w) + 1
        BY <1>1, <1>u
      <4> QED BY <4>1, <4>2, <4>3
    <3> QED BY <1>5, <1>6, <1>12, <2>3, <3>1, <3>2
  <2>4. CASE s # t
    BY <1>5, <1>6, <1>11, <2>1, <2>2, <2>4
  <2> QED BY <2>3, <2>4
<1>14. WholeSound(g)
  <2> SUFFICES ASSUME NEW q \in Server
               PROVE  /\ Known(g, g.whole[q])
                      /\ \A k \in 1 .. Len(g.whole[q]) : g.whole[q][k].term <= g.now[q]
    BY DEF WholeSound
  <2>1. /\ Known(h, h.whole[q]) /\ h.whole[q] \in Seq(LogEntry)
        /\ \A k \in 1 .. Len(h.whole[q]) : h.whole[q][k].term <= h.now[q]
    BY <1>0, HistoryTypes DEF WholeSound
  <2>2. CASE q = p
    <3>1. ASSUME NEW k \in 1 .. Len(u) PROVE u[k].term <= t
      <4>1. CASE k \in 1 .. Len(w)
        BY <1>u, <2>1, <2>2, <4>1
      <4>2. CASE k = Len(w) + 1
        BY <1>1, <1>u, <4>2
      <4>3. k \in 1 .. Len(w) \/ k = Len(w) + 1
        BY <1>1, <1>u
      <4> QED BY <4>1, <4>2, <4>3
    <3> QED BY <1>5, <1>7, <1>12, <2>2, <3>1
  <2>3. CASE q # p
    BY <1>5, <1>7, <1>11, <2>1, <2>3
  <2> QED BY <2>2, <2>3
<1>15. HeldSound(g)
  <2> SUFFICES ASSUME NEW q \in Server, NEW s \in Nat, g.held[q][s] # 0
               PROVE  s \in g.terms /\ s <= g.now[q] /\ g.held[q][s] <= Len(g.led[s])
    BY DEF HeldSound
  <2>1. CASE q = p /\ s = t
    BY <1>1, <1>5, <1>6, <1>7, <1>u, <2>1
  <2>2. CASE ~(q = p /\ s = t)
    <3>1. g.held[q][s] = h.held[q][s]
      BY <1>7, <2>2
    <3>2. s \in h.terms /\ s <= h.now[q] /\ h.held[q][s] <= Len(h.led[s])
      BY <1>0, <3>1 DEF HeldSound
    <3>3. Len(h.led[s]) <= Len(g.led[s])
      BY <1>10, <3>2 DEF Follows, Share
    <3>4. h.held[q][s] \in Nat /\ Len(h.led[s]) \in Nat /\ Len(g.led[s]) \in Nat
      BY <1>0, <1>5, HistoryTypes
    <3> QED BY <1>5, <3>1, <3>2, <3>3, <3>4
  <2> QED BY <2>1, <2>2
<1>16. Kept(g)
  <2> SUFFICES ASSUME NEW q \in Server, NEW s \in Nat, NEW j \in 1 .. g.held[q][s]
               PROVE  \/ Share(g.whole[q], g.led[s], j)
                      \/ \E r \in Nat : s < r /\ r <= g.now[q] /\ Lost(g, s, j, r)
    BY DEF Kept
  <2>1. CASE q = p /\ s = t
    <3>1. Share(u, u, j)
      BY <1>1, <1>u, <1>7, <2>1 DEF Share
    <3> QED BY <1>6, <1>7, <2>1, <3>1
  <2>2. CASE ~(q = p /\ s = t)
    <3>1. j \in 1 .. h.held[q][s] /\ h.held[q][s] \in Nat
      BY <1>0, <1>7, <2>2, HistoryTypes
    <3>2. Share(h.whole[q], h.led[s], j) => Share(g.whole[q], h.led[s], j)
      <4>1. CASE q # p
        BY <1>7, <4>1
      <4>2. ASSUME q = p, Share(w, h.led[s], j)
            PROVE  Share(u, h.led[s], j)
        <5>1. j <= Len(w) /\ j \in Nat
          BY <3>1, <4>2 DEF Share
        <5>2. j <= Len(u) /\ \A i \in 1 .. j : i \in 1 .. Len(w)
          BY <1>1, <1>u, <5>1
        <5> QED BY <1>u, <4>2, <5>2 DEF Share
      <4> QED BY <1>7, <4>1, <4>2
    <3> QED BY <1>0, <1>5, <1>10, <3>1, <3>2, KeptStays
  <2> QED BY <2>1, <2>2
<1>17. WonSound(g)
  BY <1>0, <1>5, <1>10, WonStays DEF WonSound
<1> QED BY <1>5, <1>6, <1>7, <1>8, <1>10, <1>13, <1>14, <1>15, <1>16, <1>17
        DEF Sound, g, logs, u
-----------------------------------------------------------------------------
(* What the nodes rely on *)

\* A part of what is covered is covered.
LEMMA CoveredPart ==
  ASSUME NEW h \in History, NEW u, NEW c \in Nat, NEW t \in Nat, Covered(h, u, c, t),
         NEW v, NEW d \in Nat, d <= c, d # 0 => Share(v, u, d)
  PROVE  Covered(h, v, d, t)
<1> SUFFICES ASSUME d # 0 PROVE Covered(h, v, d, t)
  BY DEF Covered
<1>1. PICK s \in Nat, k \in Nat : s <= t /\ c <= k /\ Chosen(h, s, k) /\ Share(u, h.led[s], c)
  BY DEF Covered
<1>2. Share(v, h.led[s], d)
  <2>1. /\ d <= Len(v) /\ \A j \in 1 .. d : v[j] = u[j]
        /\ c <= Len(h.led[s]) /\ \A j \in 1 .. c : u[j] = h.led[s][j]
    BY <1>1 DEF Share
  <2>2. Len(h.led[s]) \in Nat
    BY HistoryTypes
  <2>3. d <= Len(h.led[s]) /\ \A j \in 1 .. d : j \in 1 .. c
    BY <2>1, <2>2
  <2> QED BY <2>1, <2>3 DEF Share
<1>3. d <= k
  BY <1>1
<1> QED BY <1>1, <1>2, <1>3 DEF Covered

\* What is covered of a log is in it.
LEMMA CoveredLength ==
  ASSUME NEW h, NEW u \in Seq(LogEntry), NEW c \in Nat, NEW t, Covered(h, u, c, t)
  PROVE  c <= Len(u)
<1>1. Len(u) \in Nat
  OBVIOUS
<1> QED BY <1>1 DEF Covered, Share

\* Taking over entries of the leader leaves what was covered in place.
LEMMA TookCovers ==
  ASSUME NEW h, Sound(h), NEW p \in Server, NEW w, NEW k, Takes(h, p, w, k),
         NEW c \in Nat, Covered(h, h.whole[p], c, h.now[p])
  PROVE  c # 0 => Share(h.whole[p], w, c)
<1> SUFFICES ASSUME c # 0 PROVE Share(h.whole[p], w, c)
  OBVIOUS
<1> DEFINE t == h.now[p]
           v == h.whole[p]
           u == h.led[t]
<1>0. h \in History
  BY DEF Sound
<1>1. t \in h.terms /\ w \in Seq(LogEntry)
      /\ (w = v \/ (Share(w, u, Len(w)) /\ ~Share(v, u, Len(w))))
  BY DEF Takes
<1>2. Len(w) \in Nat /\ Len(v) \in Nat /\ Len(u) \in Nat
  <2>1. t \in Nat
    BY <1>0, HistoryTypes
  <2> QED BY <1>0, <1>1, <2>1, HistoryTypes
<1>3. Share(v, u, c)
  BY <1>1, CoveredByLeader
<1>4. CASE w = v
  BY <1>3, <1>4 DEF Share
<1>5. CASE Share(w, u, Len(w)) /\ ~Share(v, u, Len(w))
  <2> HIDE DEF u, v
  <2>1. ~(Len(w) <= c)
    <3> SUFFICES ASSUME Len(w) <= c PROVE Share(v, u, Len(w))
      BY <1>5
    <3>1. Len(w) <= Len(v) /\ Len(w) <= Len(u) /\ 1 .. Len(w) \subseteq 1 .. c
      BY <1>2, <1>3 DEF Share
    <3> QED BY <1>3, <3>1 DEF Share
  <2>2. c <= Len(w) /\ 1 .. c \subseteq 1 .. Len(w)
    BY <1>2, <2>1
  <2>3. c <= Len(v) /\ \A j \in 1 .. c : v[j] = u[j]
    BY <1>3 DEF Share
  <2>4. \A j \in 1 .. Len(w) : w[j] = u[j]
    BY <1>5 DEF Share
  <2>5. \A j \in 1 .. c : w[j] = u[j]
    BY <2>2, <2>4
  <2>6. Share(v, w, c)
    BY <2>2, <2>3, <2>5, SMT DEF Share
  <2> QED BY <2>6 DEF v
<1> QED BY <1>1, <1>4, <1>5

\* A server's own log is as up to date as anything it has held.
LEMMA OwnBacks ==
  ASSUME NEW h, Sound(h), NEW p \in Server, h.now[p] \notin h.terms
  PROVE  Backs(h, p, h.now[p], h.whole[p], Len(h.whole[p]))
<1> DEFINE w == h.whole[p]
           t == h.now[p]
<1>0. h \in History /\ LedSound(h) /\ Known(h, w) /\ t \in Nat
      /\ w \in Seq(LogEntry) /\ Len(w) \in Nat
  BY HistoryTypes DEF Sound, WholeSound
<1> SUFFICES ASSUME NEW s \in Nat, NEW k \in 1 .. h.held[p][s], s < t
             PROVE  \/ UpToDate(w, Len(w), h.led[s], k)
                    \/ \E r \in Nat : s < r /\ r < t /\ Lost(h, s, k, r)
  BY DEF Backs
<1>1. \/ Share(w, h.led[s], k)
      \/ \E r \in Nat : s < r /\ r <= t /\ Lost(h, s, k, r)
  BY DEF Sound, Kept
<1>2. CASE Share(w, h.led[s], k)
  <2>0. h.held[p][s] \in Nat
    BY <1>0, HistoryTypes
  <2>1. k \in Nat /\ k # 0 /\ k <= Len(w) /\ Len(w) # 0
    BY <1>0, <1>2, <2>0 DEF Share
  <2>2. w[k] = h.led[s][k]
    BY <1>2, <2>1 DEF Share
  <2>3. Len(w) \in 1 .. Len(w) /\ k \in 1 .. Len(w)
    BY <1>0, <2>1
  <2>4. w[k].term <= w[Len(w)].term
    BY <1>0, <2>1, <2>3, KnownSorted
  <2>5. w[k].term \in Nat /\ w[Len(w)].term \in Nat
    BY <1>0, <2>3, EntryTypes
  <2> QED BY <2>1, <2>2, <2>4, <2>5 DEF UpToDate, TermOf
<1>3. CASE \E r \in Nat : s < r /\ r <= t /\ Lost(h, s, k, r)
  <2>1. PICK r \in Nat : s < r /\ r <= t /\ Lost(h, s, k, r)
    BY <1>3
  <2>2. r # t
    BY <2>1 DEF Lost
  <2>3. r < t
    BY <1>0, <2>1, <2>2
  <2> QED BY <2>1, <2>3
<1> QED BY <1>1, <1>2, <1>3

\* A log that is as up to date as one that backs a candidate backs it as well.
LEMMA BacksMore ==
  ASSUME NEW h \in History, NEW p \in Server, NEW s \in Nat, NEW u, NEW l \in Nat,
         Backs(h, p, s, u, l), NEW v, NEW k \in Nat, UpToDate(v, k, u, l),
         TermOf(u, l) \in Nat, TermOf(v, k) \in Nat, LedSound(h), HeldSound(h)
  PROVE  Backs(h, p, s, v, k)
<1> SUFFICES ASSUME NEW t \in Nat, NEW j \in 1 .. h.held[p][t], t < s,
                    UpToDate(u, l, h.led[t], j)
             PROVE  UpToDate(v, k, h.led[t], j)
  BY DEF Backs
<1>1. h.held[p][t] \in Nat /\ Len(h.led[t]) \in Nat /\ h.led[t] \in Seq(LogEntry)
  BY HistoryTypes
<1>2. h.held[p][t] # 0 /\ h.held[p][t] <= Len(h.led[t])
  BY <1>1 DEF HeldSound
<1>3. j \in 1 .. Len(h.led[t]) /\ j \in Nat
  BY <1>1, <1>2
<1>4. TermOf(h.led[t], j) \in Nat
  BY <1>1, <1>3, EntryTypes DEF TermOf
<1> HIDE DEF TermOf
<1> QED BY <1>3, <1>4 DEF UpToDate


=============================================================================
