------------------------------ MODULE OracleProofs ------------------------------
(***************************************************************************)
(* That the oracle sees everything and reports nothing, for every number   *)
(* of servers, and a fixed membership of at least two.                     *)
(*                                                                         *)
(* The inductive invariant, OracleInv, relates what the oracle keeps to a  *)
(* history that explains the cluster (module RaftSafetyProofs).  Every     *)
(* prefix in its dictionary is that of a leader, and every entry of every  *)
(* log is there; of each node it has the prefixes of all that is left of   *)
(* the log; what it has on record was chosen.  An event of one node is     *)
(* then one look.  First comes what a look makes of the prefixes of a node *)
(* whose old log and new log are known (LookValidated), then what an event *)
(* of the cluster leaves for it: a snapshot point that some other node has *)
(* had (ElsewhereListed), deletions above what is committed only, and no   *)
(* check that fails (LookQuiet).                                           *)
(***************************************************************************)
EXTENDS RaftTheorems, Oracle

-----------------------------------------------------------------------------
(* The oracle's prefixes *)

\* The prefixes of log u from length s on.
Prefixes(u, s) == [k \in s .. Len(u) |-> SubSeq(u, 1, k)]

\* What the oracle keeps of a node has these fields.
Book(w) == DOMAIN w = {"hashes", "checked", "snapshotAt", "commitSeen", "maxTerm"}

\* What else is kept of a node is in w as in v.
SameMarks(v, w) ==
  w.snapshotAt = v.snapshotAt /\ w.commitSeen = v.commitSeen /\ w.maxTerm = v.maxTerm

\* The oracle has validated all of log u, of which s entries are compacted.
Validated(w, u, s) == Book(w) /\ w.hashes = Prefixes(u, s) /\ w.checked = Len(u)

\* It has validated the first c entries of u, whatever it keeps of the first s.
ValidatedUpTo(w, u, s, c) ==
  /\ Book(w) /\ w.checked = c
  /\ {k \in DOMAIN w.hashes : k >= s} = s .. c
  /\ \A k \in s .. c : w.hashes[k] = SubSeq(u, 1, k)

\* Where logs u and v have an entry of the same term they agree that far.
Meets(u, v) ==
  \A k \in 1 .. Len(u) : k <= Len(v) /\ u[k].term = v[k].term => Share(u, v, k)

\* The beginning of a sequence.
LEMMA Beginning1 ==
  ASSUME NEW S, NEW u \in Seq(S), NEW k \in 0 .. Len(u)
  PROVE  /\ SubSeq(u, 1, k) \in Seq(S) /\ Len(SubSeq(u, 1, k)) = k
         /\ \A j \in 1 .. k : SubSeq(u, 1, k)[j] = u[j]
<1> DEFINE b == SubSeq(u, 1, k)
<1>1. k \in Int /\ k \in Nat /\ \A j \in 1 .. k : u[j] \in S
  OBVIOUS
<1>2. /\ b \in Seq(S) /\ Len(b) = IF 1 <= k THEN k - 1 + 1 ELSE 0
      /\ \A j \in 1 .. k - 1 + 1 : b[j] = u[1 + j - 1]
  BY <1>1, SubSeqProperties
<1> HIDE DEF b
<1>3. \A j \in 1 .. k : j \in 1 .. k - 1 + 1 /\ 1 + j - 1 = j
  BY <1>1
<1>4. (IF 1 <= k THEN k - 1 + 1 ELSE 0) = k
  BY <1>1
<1>5. b \in Seq(S) /\ Len(b) = k /\ \A j \in 1 .. k : b[j] = u[j]
  BY <1>2, <1>3, <1>4
<1> QED BY <1>5 DEF b

\* Logs that share entries have the same beginning.
LEMMA SharedBeginning ==
  ASSUME NEW u \in Seq(LogEntry), NEW v \in Seq(LogEntry), NEW k \in Nat,
         k # 0 => Share(u, v, k), k <= Len(u), k <= Len(v)
  PROVE  SubSeq(u, 1, k) = SubSeq(v, 1, k)
<1>1. k \in 0 .. Len(u) /\ k \in 0 .. Len(v)
  OBVIOUS
<1>2. /\ SubSeq(u, 1, k) \in Seq(LogEntry) /\ Len(SubSeq(u, 1, k)) = k
      /\ \A j \in 1 .. k : SubSeq(u, 1, k)[j] = u[j]
  BY <1>1, Beginning1
<1>3. /\ SubSeq(v, 1, k) \in Seq(LogEntry) /\ Len(SubSeq(v, 1, k)) = k
      /\ \A j \in 1 .. k : SubSeq(v, 1, k)[j] = v[j]
  BY <1>1, Beginning1
<1>4. \A j \in 1 .. k : u[j] = v[j]
  BY DEF Share
<1> QED BY <1>2, <1>3, <1>4, SeqEqual

\* A sequence that is made of two has the entries of each.
LEMMA MadeOfTwo ==
  ASSUME NEW S, NEW p \in Seq(S), NEW q \in Seq(S), NEW r \in Seq(S),
         Len(r) = Len(p) + Len(q),
         \A j \in 1 .. Len(p) : p[j] = r[j],
         \A j \in 1 .. Len(q) : q[j] = r[Len(p) + j]
  PROVE  p \o q = r
<1> DEFINE x == p \o q
<1>1. /\ x \in Seq(S) /\ Len(x) = Len(p) + Len(q)
      /\ \A j \in 1 .. Len(p) + Len(q) : x[j] = IF j <= Len(p) THEN p[j] ELSE q[j - Len(p)]
  BY ConcatProperties
<1> HIDE DEF x
<1>2. Len(p) \in Nat /\ Len(q) \in Nat /\ Len(r) \in Nat
  OBVIOUS
<1>3. ASSUME NEW j \in 1 .. Len(x) PROVE x[j] = r[j]
  <2>1. CASE j <= Len(p)
    <3>1. j \in 1 .. Len(p) /\ j \in 1 .. Len(p) + Len(q)
      BY <1>1, <1>2, <2>1
    <3> QED BY <1>1, <2>1, <3>1
  <2>2. CASE ~(j <= Len(p))
    <3>1. j - Len(p) \in 1 .. Len(q) /\ j \in 1 .. Len(p) + Len(q) /\ Len(p) + (j - Len(p)) = j
      BY <1>1, <1>2, <2>2
    <3>2. x[j] = q[j - Len(p)]
      BY <1>1, <2>2, <3>1
    <3>3. q[j - Len(p)] = r[Len(p) + (j - Len(p))]
      BY <3>1
    <3> QED BY <3>1, <3>2, <3>3
  <2> QED BY <2>1, <2>2
<1>4. x = r
  BY <1>1, <1>3, SeqEqual
<1> QED BY <1>4 DEF x

\* The beginning of a log u, extended by what a node that keeps u has of it.
LEMMA ExtendedBeginning ==
  ASSUME NEW a \in NodeState, NEW u \in Seq(LogEntry), Keeping(a, u),
         NEW d \in a.snapshotIndex .. Len(u), NEW k \in d + 1 .. Len(u)
  PROVE  SubSeq(u, 1, d) \o SubSeq(a.log, d + 1 - a.snapshotIndex, k - a.snapshotIndex)
           = SubSeq(u, 1, k)
<1> DEFINE s == a.snapshotIndex
           p == SubSeq(u, 1, d)
           q == SubSeq(a.log, d + 1 - s, k - s)
           r == SubSeq(u, 1, k)
<1>1. /\ s \in Nat /\ Len(u) \in Nat /\ d \in Nat /\ k \in Nat
      /\ d \in 0 .. Len(u) /\ k \in 0 .. Len(u)
      /\ \A j \in s + 1 .. Len(u) : a.log[j - s] = u[j] /\ u[j] \in LogEntry
  BY DEF Keeping, NodeState
<1>2. /\ p \in Seq(LogEntry) /\ Len(p) = d /\ \A j \in 1 .. d : p[j] = u[j]
  BY <1>1, Beginning1
<1>3. /\ r \in Seq(LogEntry) /\ Len(r) = k /\ \A j \in 1 .. k : r[j] = u[j]
  BY <1>1, Beginning1
<1>4. /\ q \in Seq(LogEntry) /\ Len(q) = k - d /\ \A j \in 1 .. k - d : q[j] = u[d + j]
  <2> DEFINE x == d + 1 - s
             y == k - s
  <2>1. x \in Int /\ y \in Int /\ x <= y /\ y - x + 1 = k - d
    BY <1>1
  <2>2. \A j \in x .. y : j + s \in s + 1 .. Len(u) /\ j + s - s = j
    BY <1>1
  <2>3. ASSUME NEW j \in x .. y PROVE a.log[j] \in LogEntry
    <3>1. a.log[j + s - s] = u[j + s] /\ u[j + s] \in LogEntry
      BY <1>1, <2>2
    <3> QED BY <2>2, <3>1
  <2>4. \A j \in 1 .. k - d : d + j \in s + 1 .. Len(u) /\ d + j - s = x + j - 1
    BY <1>1
  <2>5. q = SubSeq(a.log, x, y)
    OBVIOUS
  <2> HIDE DEF x, y, q, s
  <2>6. /\ q \in Seq(LogEntry) /\ Len(q) = y - x + 1
        /\ \A j \in 1 .. y - x + 1 : q[j] = a.log[x + j - 1]
    BY <2>1, <2>3, <2>5, SubSeqProperties
  <2>7. ASSUME NEW j \in 1 .. k - d PROVE q[j] = u[d + j]
    <3>1. q[j] = a.log[x + j - 1]
      BY <2>1, <2>6
    <3>2. a.log[d + j - s] = u[d + j]
      BY <1>1, <2>4
    <3> QED BY <2>4, <3>1, <3>2
  <2> QED BY <2>1, <2>6, <2>7
<1> HIDE DEF p, q, r, s
<1>5. Len(r) = Len(p) + Len(q)
  BY <1>1, <1>2, <1>3, <1>4
<1>6. \A j \in 1 .. Len(p) : p[j] = r[j]
  BY <1>1, <1>2, <1>3
<1>7. \A j \in 1 .. Len(q) : q[j] = r[Len(p) + j]
  <2>1. \A j \in 1 .. k - d : d + j \in 1 .. k
    BY <1>1
  <2> QED BY <1>2, <1>3, <1>4, <2>1
<1>8. p \o q = r
  BY <1>2, <1>3, <1>4, <1>5, <1>6, <1>7, MadeOfTwo
<1> QED BY <1>8 DEF p, q, r, s

\* Which entries of a log u, kept by n, have gone when the node a keeps v.
LEMMA DeletedFrom ==
  ASSUME NEW n \in NodeState, NEW a \in NodeState,
         NEW u \in Seq(LogEntry), NEW v \in Seq(LogEntry), Keeping(n, u), Keeping(a, v),
         Meets(u, v), n.snapshotIndex <= a.snapshotIndex,
         n.snapshotIndex # 0 => Share(u, v, n.snapshotIndex)
  PROVE  LET D == Deleted(n, a, FALSE)
         IN /\ D \subseteq Larger(n.snapshotIndex + 1, a.snapshotIndex) .. Len(u)
            /\ \A k \in a.snapshotIndex .. Len(u) : k \notin D /\ k # 0 => Share(u, v, k)
<1> DEFINE D == Deleted(n, a, FALSE)
           r == n.snapshotIndex
           s == a.snapshotIndex
<1>0. Len(u) \in Nat /\ Len(v) \in Nat
  OBVIOUS
<1>1. /\ r \in Nat /\ s \in Nat /\ Len(u) \in Nat /\ Len(v) \in Nat /\ LastIndex(n) = Len(u)
      /\ r <= s
  BY <1>0 DEF Keeping, NodeState
<1>2. \A k : k \in D <=> k \in r + 1 .. Len(u) /\ k >= s /\ TermAt(a, k) # TermAt(n, k)
  BY <1>1 DEF Deleted
<1> HIDE DEF D
<1>3. D \subseteq Larger(r + 1, s) .. Len(u)
  BY <1>1, <1>2 DEF Larger
<1>4. ASSUME NEW k \in s .. Len(u), k \notin D, k # 0 PROVE Share(u, v, k)
  <2>1. CASE k = r
    BY <2>1, <1>4
  <2>2. CASE k # r
    <3>1. k \in r + 1 .. Len(u) /\ k \in r .. Len(u) /\ k \in 1 .. Len(u) /\ k \in Nat
      BY <1>1, <1>4, <2>2
    <3>2. TermAt(a, k) = TermAt(n, k) /\ TermAt(n, k) = u[k].term
      BY <1>1, <1>2, <1>4, <3>1, KeepingReads DEF TermOf
    <3>3. u[k].term \in Nat
      BY <3>1, EntryTypes
    <3>4. k \in s .. Len(v)
      <4>1. k \notin s .. Len(v) => TermAt(a, k) = -1
        BY <3>1, KeepingReads
      <4> QED BY <3>2, <3>3, <4>1
    <3>5. TermAt(a, k) = v[k].term
      BY <1>1, <1>4, <3>1, <3>4, KeepingReads DEF TermOf
    <3>6. k <= Len(v)
      BY <1>1, <3>4
    <3> QED BY <3>1, <3>2, <3>5, <3>6 DEF Meets
  <2> QED BY <2>1, <2>2
<1> QED BY <1>3, <1>4 DEF D, r, s

\* After the cut, what is left is validated of the new log.
LEMMA CutValidated ==
  ASSUME NEW n \in NodeState, NEW a \in NodeState,
         NEW u \in Seq(LogEntry), NEW v \in Seq(LogEntry), Keeping(n, u), Keeping(a, v),
         Meets(u, v), n.snapshotIndex <= a.snapshotIndex,
         n.snapshotIndex # 0 => Share(u, v, n.snapshotIndex),
         NEW w, Validated(w, u, n.snapshotIndex)
  PROVE  LET open == Cut(w, Deleted(n, a, FALSE))
         IN /\ SameMarks(w, open)
            /\ \E c \in 0 .. Len(v) :
                 /\ ValidatedUpTo(open, v, a.snapshotIndex, c)
                 /\ \A k \in a.snapshotIndex .. c : k # 0 => Share(u, v, k)
<1> DEFINE D == Deleted(n, a, FALSE)
           r == n.snapshotIndex
           s == a.snapshotIndex
           open == Cut(w, D)
           c == IF D = {} THEN Len(u) ELSE Smaller(Len(u), Smallest(D) - 1)
           K == {k \in DOMAIN w.hashes : \A d \in D : k < d}
<1>0. /\ Len(u) \in Nat /\ Len(v) \in Nat /\ r \in Nat /\ s \in Nat
      /\ n.lastApplied \in Nat /\ a.lastApplied \in Nat
  <2>1. Len(u) \in Nat /\ Len(v) \in Nat
    OBVIOUS
  <2>2. /\ r \in Nat /\ s \in Nat /\ n.lastApplied \in Nat /\ a.lastApplied \in Nat
    BY DEF NodeState
  <2> QED BY <2>1, <2>2
<1>1. /\ r \in Nat /\ s \in Nat /\ Len(u) \in Nat /\ Len(v) \in Nat /\ r <= s /\ s <= Len(v)
      /\ r <= Len(u)
  BY <1>0 DEF Keeping
<1>2. /\ D \subseteq Larger(r + 1, s) .. Len(u)
      /\ \A k \in s .. Len(u) : k \notin D /\ k # 0 => Share(u, v, k)
  BY DeletedFrom
<1>3. /\ Book(w) /\ w.checked = Len(u) /\ DOMAIN w.hashes = r .. Len(u)
      /\ \A k \in r .. Len(u) : w.hashes[k] = SubSeq(u, 1, k)
  BY DEF Validated, Prefixes
<1> HIDE DEF D
<1>4. D # {} => /\ Smallest(D) \in D /\ Smallest(D) \in Larger(r + 1, s) .. Len(u)
                /\ \A d \in D : Smallest(D) <= d
  <2>1. D \subseteq Nat
    BY <1>1, <1>2 DEF Larger
  <2> QED BY <1>2, <2>1, SmallestType
<1>5. /\ c \in 0 .. Len(u) /\ r <= c
      /\ K = r .. c /\ \A k \in s .. c : k \notin D
  <2>1. CASE D = {}
    BY <1>1, <1>3, <2>1
  <2>2. CASE D # {}
    <3> DEFINE b == Smallest(D)
    <3>1. b \in D /\ b \in r + 1 .. Len(u) /\ b >= s /\ \A d \in D : b <= d /\ d \in Nat
      BY <1>1, <1>2, <1>4, <2>2 DEF Larger
    <3> HIDE DEF b
    <3>2. c = b - 1
      <4>1. c = Smaller(Len(u), b - 1)
        BY <2>2 DEF b
      <4> QED BY <1>1, <3>1, <4>1 DEF Smaller
    <3> HIDE DEF c
    <3>3. \A k \in r .. Len(u) : (\A d \in D : k < d) <=> k <= b - 1
      BY <1>1, <3>1
    <3>4. K = r .. c
      BY <1>1, <1>3, <3>1, <3>2, <3>3
    <3> QED BY <1>1, <3>1, <3>2, <3>4
  <2> QED BY <2>1, <2>2
<1>6. /\ open.checked = c /\ SameMarks(w, open) /\ Book(open)
      /\ DOMAIN open.hashes = r .. c /\ \A k \in r .. c : open.hashes[k] = SubSeq(u, 1, k)
  <2>1. CASE D = {}
    BY <1>1, <1>3, <2>1 DEF Cut, SameMarks
  <2>2. CASE D # {}
    <3>1. open = [w EXCEPT !.hashes = Only(w.hashes, K),
                           !.checked = Smaller(w.checked, Smallest(D) - 1)]
      BY <2>2 DEF Cut
    <3>2. /\ open.checked = c /\ SameMarks(w, open) /\ Book(open)
          /\ open.hashes = Only(w.hashes, K)
      BY <1>3, <2>2, <3>1 DEF Book, SameMarks
    <3> HIDE DEF K, c, open
    <3> QED BY <1>1, <1>3, <1>5, <3>2 DEF Only
  <2> QED BY <2>1, <2>2
<1> HIDE DEF c, K, open
<1>7. \A k \in s .. c : k # 0 => Share(u, v, k)
  BY <1>1, <1>2, <1>5
<1>8. c \in 0 .. Len(v)
  <2>1. CASE c < s
    BY <1>1, <1>5, <2>1
  <2>2. CASE c >= s /\ c # 0
    BY <1>1, <1>5, <1>7, <2>2 DEF Share
  <2> QED BY <1>1, <1>5, <2>1, <2>2
<1>9. \A k \in s .. c : open.hashes[k] = SubSeq(v, 1, k)
  <2> SUFFICES ASSUME NEW k \in s .. c PROVE open.hashes[k] = SubSeq(v, 1, k)
    OBVIOUS
  <2>1. k \in Nat /\ k \in r .. c /\ k <= Len(u) /\ k <= Len(v) /\ (k # 0 => Share(u, v, k))
    BY <1>1, <1>5, <1>7, <1>8
  <2>2. SubSeq(u, 1, k) = SubSeq(v, 1, k)
    BY <2>1, SharedBeginning
  <2> QED BY <1>6, <2>1, <2>2
<1>10. {k \in DOMAIN open.hashes : k >= s} = s .. c
  BY <1>1, <1>5, <1>6
<1>11. ValidatedUpTo(open, v, s, c)
  BY <1>6, <1>9, <1>10 DEF ValidatedUpTo
<1> QED BY <1>6, <1>7, <1>8, <1>11 DEF open, D, s

\* The prefix at the snapshot point of node a, which keeps u, is known.
PointKnown(a, u) ==
  a.snapshotIndex # 0 =>
    /\ <<a.snapshotIndex, a.snapshotTerm>> \in DOMAIN canonical
    /\ canonical[<<a.snapshotIndex, a.snapshotTerm>>] = SubSeq(u, 1, a.snapshotIndex)

\* With the snapshot point known, what is left reaches it at least, and nothing below it is
\* kept.
LEMMA AnchorValidated ==
  ASSUME NEW a \in NodeState, NEW v \in Seq(LogEntry), Keeping(a, v), PointKnown(a, v),
         NEW w, NEW c \in 0 .. Len(v), ValidatedUpTo(w, v, a.snapshotIndex, c),
         NEW base, base = Prune(Anchor(w, a), a),
         NEW d, d = Larger(c, a.snapshotIndex)
  PROVE  /\ ~UnknownPoint(w, a) /\ SameMarks(w, base) /\ Book(base)
         /\ base.checked = d /\ DOMAIN base.hashes = a.snapshotIndex .. d
         /\ \A k \in a.snapshotIndex .. d : base.hashes[k] = SubSeq(v, 1, k)
<1> DEFINE s == a.snapshotIndex
           x == Anchor(w, a)
           point == <<s, a.snapshotTerm>>
<1>1. s \in Nat /\ c \in Nat
  BY DEF NodeState
<1>2. /\ Book(w) /\ w.checked = c /\ {k \in DOMAIN w.hashes : k >= s} = s .. c
      /\ \A k \in s .. c : w.hashes[k] = SubSeq(v, 1, k)
  BY DEF ValidatedUpTo
<1>3. /\ SameMarks(w, x) /\ Book(x) /\ x.checked = d
      /\ {k \in DOMAIN x.hashes : k >= s} = s .. d
      /\ \A k \in s .. d : x.hashes[k] = SubSeq(v, 1, k)
  <2>1. CASE s <= c
    <3>1. x = w /\ d = c
      BY <1>1, <1>2, <2>1 DEF Anchor, Larger
    <3> HIDE DEF x
    <3> QED BY <1>2, <3>1 DEF SameMarks
  <2>2. CASE ~(s <= c)
    <3> DEFINE f == [k \in {s} |-> canonical[point]]
               y == Over(f, w.hashes)
    <3>1. point \in DOMAIN canonical /\ canonical[point] = SubSeq(v, 1, s) /\ d = s
      <4>1. a.snapshotIndex # 0 /\ d = s
        BY <1>1, <2>2 DEF Larger
      <4> QED BY <4>1, Zenon DEF PointKnown
    <3>2. x = [w EXCEPT !.hashes = y, !.checked = s]
      BY <1>2, <2>2, <3>1 DEF Anchor
    <3>3. /\ DOMAIN y = {s} \cup DOMAIN w.hashes
          /\ y[s] = canonical[point]
      BY DEF Over
    <3> HIDE DEF f, y
    <3>4. x.hashes = y /\ x.checked = s /\ SameMarks(w, x) /\ Book(x)
      BY <1>2, <3>2 DEF Book, SameMarks
    <3> HIDE DEF x, point
    <3>5. s .. c = {} /\ s .. s = {s} /\ s >= s
      BY <1>1, <2>2
    <3>6. {k \in {s} \cup DOMAIN w.hashes : k >= s} = {s}
      BY <1>2, <3>5
    <3> QED BY <3>1, <3>3, <3>4, <3>5, <3>6
  <2> QED BY <2>1, <2>2
<1>4. ~UnknownPoint(w, a)
  BY <1>1, <1>2 DEF PointKnown, UnknownPoint
<1>5. base = [x EXCEPT !.hashes = Only(x.hashes, {k \in DOMAIN x.hashes : k >= s})]
  BY DEF Prune
<1> HIDE DEF x
<1>6. /\ base.hashes = Only(x.hashes, s .. d) /\ base.checked = x.checked
      /\ SameMarks(x, base) /\ Book(base)
  BY <1>3, <1>5 DEF Book, SameMarks
<1>7. DOMAIN base.hashes = s .. d /\ \A k \in s .. d : base.hashes[k] = SubSeq(v, 1, k)
  BY <1>3, <1>6 DEF Only
<1>8. SameMarks(w, base)
  BY <1>3, <1>6 DEF SameMarks
<1> QED BY <1>3, <1>4, <1>6, <1>7, <1>8

\* Then the rest of the log is validated.
LEMMA RestValidated ==
  ASSUME NEW a \in NodeState, NEW v \in Seq(LogEntry), Keeping(a, v),
         NEW w, NEW d \in a.snapshotIndex .. Len(v), Book(w), w.checked = d,
         DOMAIN w.hashes = a.snapshotIndex .. d,
         \A k \in a.snapshotIndex .. d : w.hashes[k] = SubSeq(v, 1, k)
  PROVE  /\ ToValidate(w, a) = d + 1 .. Len(v)
         /\ Validated(Validate(w, a), v, a.snapshotIndex)
         /\ SameMarks(w, Validate(w, a))
<1> DEFINE s == a.snapshotIndex
           from == Larger(w.checked, s)
           T == ToValidate(w, a)
           Prefix(k) == w.hashes[from] \o SubSeq(a.log, from + 1 - s, k - s)
           f == [k \in T |-> Prefix(k)]
           y == Over(f, w.hashes)
           z == Validate(w, a)
<1>1. s \in Nat /\ Len(v) \in Nat /\ d \in Nat /\ LastIndex(a) = Len(v) /\ s <= d /\ d <= Len(v)
  <2>1. Len(v) \in Nat
    OBVIOUS
  <2>2. s \in Nat /\ LastIndex(a) = Len(v)
    BY DEF NodeState, Keeping
  <2> QED BY <2>1, <2>2
<1>2. from = d
  BY <1>1 DEF Larger
<1>3. T = d + 1 .. Len(v)
  BY <1>1, <1>2 DEF ToValidate
<1>4. z = [w EXCEPT !.hashes = y, !.checked = IF T # {} THEN LastIndex(a)
                           ELSE IF w.checked < LastIndex(a) THEN from ELSE w.checked]
  BY DEF Validate
<1>5. ASSUME NEW k \in d + 1 .. Len(v) PROVE f[k] = SubSeq(v, 1, k)
  <2>1. f[k] = Prefix(k)
    BY <1>3
  <2>2. Prefix(k) = SubSeq(v, 1, d) \o SubSeq(a.log, d + 1 - s, k - s)
    <3>1. d \in s .. d
      BY <1>1
    <3>2. w.hashes[d] = SubSeq(v, 1, d)
      BY <3>1
    <3> HIDE DEF from
    <3> QED BY <1>2, <3>2, Zenon
  <2>3. SubSeq(v, 1, d) \o SubSeq(a.log, d + 1 - a.snapshotIndex, k - a.snapshotIndex)
           = SubSeq(v, 1, k)
    BY ExtendedBeginning
  <2> QED BY <2>1, <2>2, <2>3
<1>6. DOMAIN f = T
  OBVIOUS
<1> HIDE DEF f, T
<1>7. /\ DOMAIN y = T \cup DOMAIN w.hashes
      /\ \A k \in T : y[k] = f[k]
      /\ \A k \in DOMAIN w.hashes : k \notin T => y[k] = w.hashes[k]
  BY <1>6 DEF Over
<1>8. y = [k \in DOMAIN y |-> y[k]]
  BY DEF Over
<1> HIDE DEF y, z
<1>9. z.hashes = y /\ SameMarks(w, z) /\ Book(z)
  BY <1>4 DEF Book, SameMarks
<1>10. z.checked = Len(v)
  <2>1. T = {} => d = Len(v)
    BY <1>1, <1>3
  <2> QED BY <1>1, <1>2, <1>4, <2>1 DEF Book
<1>11. DOMAIN y = s .. Len(v)
  BY <1>1, <1>3, <1>7
<1>12. \A k \in s .. Len(v) : y[k] = SubSeq(v, 1, k)
  <2>1. \A k \in s .. Len(v) : k \in T \/ (k \in s .. d /\ k \notin T)
    BY <1>1, <1>3
  <2> QED BY <1>3, <1>5, <1>7, <2>1
<1>13. y = Prefixes(v, s)
  <2>1. y = [k \in s .. Len(v) |-> y[k]]
    BY <1>8, <1>11
  <2> QED BY <1>12, <2>1, Zenon DEF Prefixes
<1> QED BY <1>3, <1>9, <1>10, <1>13 DEF Validated, T, z, s

\* What an event that turns n into a, and the log u into v, leaves the oracle with: all of the
\* new log is validated, and from where it starts to validate anew the old one was the same.
LEMMA LookValidated ==
  ASSUME NEW n \in NodeState, NEW a \in NodeState,
         NEW u \in Seq(LogEntry), NEW v \in Seq(LogEntry), Keeping(n, u), Keeping(a, v),
         Meets(u, v), n.snapshotIndex <= a.snapshotIndex,
         n.snapshotIndex # 0 => Share(u, v, n.snapshotIndex), PointKnown(a, v),
         NEW w, Validated(w, u, n.snapshotIndex),
         NEW installed \in BOOLEAN, installed => a.snapshotIndex # 0,
         NEW open, open = IF installed THEN ForgetOnInstall(Cut(w, Deleted(n, a, installed)))
                          ELSE Cut(w, Deleted(n, a, installed)),
         NEW base, base = Prune(Anchor(open, a), a)
  PROVE  /\ ~UnknownPoint(open, a)
         /\ Validated(Validate(base, a), v, a.snapshotIndex) /\ SameMarks(w, Validate(base, a))
         /\ \E d \in a.snapshotIndex .. Len(v) :
              /\ ToValidate(base, a) = d + 1 .. Len(v)
              /\ \A k \in a.snapshotIndex + 1 .. d : Share(u, v, k)
<1> DEFINE s == a.snapshotIndex
           z == Validate(base, a)
<1>0. Len(v) \in Nat
  OBVIOUS
<1>1. s \in Nat /\ s <= Len(v)
  <2>1. s \in Nat /\ a.lastApplied \in Nat
    BY DEF NodeState
  <2> QED BY <1>0, <2>1 DEF Keeping
<1>2. PICK c \in 0 .. Len(v) :
        /\ SameMarks(w, open) /\ ValidatedUpTo(open, v, s, c)
        /\ \A k \in s .. c : k # 0 => Share(u, v, k)
  <2>1. CASE installed
    <3> DEFINE D == Deleted(n, a, installed)
               x == Cut(w, D)
    <3>1. Book(w)
      BY DEF Validated
    <3>2. Book(x) /\ SameMarks(w, x)
      BY <3>1 DEF Cut, Book, SameMarks
    <3> HIDE DEF D, x
    <3>3. open = ForgetOnInstall(x)
      BY <2>1 DEF x, D
    <3>4. open.hashes = <<>> /\ open.checked = 0 /\ Book(open) /\ SameMarks(x, open)
      BY <3>2, <3>3 DEF ForgetOnInstall, Book, SameMarks
    <3>5. DOMAIN open.hashes = {}
      BY <3>4
    <3>6. s .. 0 = {} /\ 0 \in 0 .. Len(v)
      BY <1>0, <1>1, <2>1
    <3>7. ValidatedUpTo(open, v, s, 0)
      BY <3>4, <3>5, <3>6 DEF ValidatedUpTo
    <3>8. SameMarks(w, open)
      BY <3>2, <3>4 DEF SameMarks
    <3> QED BY <3>6, <3>7, <3>8
  <2>2. CASE ~installed
    <3>1. installed = FALSE
      BY <2>2
    <3>2. open = Cut(w, Deleted(n, a, FALSE))
      BY <3>1
    <3> QED BY <3>2, CutValidated
  <2> QED BY <2>1, <2>2
<1> DEFINE d == Larger(c, a.snapshotIndex)
<1>3. /\ ~UnknownPoint(open, a) /\ SameMarks(open, base) /\ Book(base)
      /\ base.checked = d /\ DOMAIN base.hashes = a.snapshotIndex .. d
      /\ \A k \in a.snapshotIndex .. d : base.hashes[k] = SubSeq(v, 1, k)
  <2>1. ValidatedUpTo(open, v, a.snapshotIndex, c)
    BY <1>2
  <2>2. d = Larger(c, a.snapshotIndex)
    OBVIOUS
  <2> HIDE DEF d
  <2>3. /\ a \in NodeState /\ v \in Seq(LogEntry) /\ Keeping(a, v) /\ PointKnown(a, v)
        /\ c \in 0 .. Len(v) /\ ValidatedUpTo(open, v, a.snapshotIndex, c)
        /\ base = Prune(Anchor(open, a), a) /\ d = Larger(c, a.snapshotIndex)
    BY <2>1, <2>2
  <2> QED BY ONLY <2>3, AnchorValidated
<1>4. d \in s .. Len(v) /\ \A k \in s + 1 .. d : k \in s .. c /\ k # 0
  BY <1>0, <1>1 DEF Larger
<1> HIDE DEF d
<1>5. /\ ToValidate(base, a) = d + 1 .. Len(v) /\ Validated(z, v, s) /\ SameMarks(base, z)
  BY <1>3, <1>4, RestValidated
<1> HIDE DEF z
<1>6. SameMarks(w, z)
  BY <1>2, <1>3, <1>5 DEF SameMarks
<1>7. \A k \in s + 1 .. d : Share(u, v, k)
  BY <1>2, <1>4
<1> QED BY <1>3, <1>4, <1>5, <1>6, <1>7 DEF z, s

-----------------------------------------------------------------------------
(* What the oracle knows *)

\* Every prefix in dictionary c is that of a leader.
PrefixesSound(c, h) ==
  \A k, t : <<k, t>> \in DOMAIN c =>
    /\ t \in h.terms /\ k \in 1 .. Len(h.led[t])
    /\ c[<<k, t>>] = SubSeq(h.led[t], 1, k)

\* Every entry of log u is in it.
Lists(c, u) == \A k \in 1 .. Len(u) : <<k, u[k].term>> \in DOMAIN c

\* What is kept of node n, whose log is u.
WatchSound(w, u, n) ==
  /\ Validated(w, u, n.snapshotIndex)
  /\ w.maxTerm \in Nat /\ w.maxTerm <= n.currentTerm
  /\ w.snapshotAt \in Nat /\ w.snapshotAt <= n.snapshotIndex
  /\ w.commitSeen \in Nat

\* The oracle has validated every log of history h, and knows every entry.
WatchExplained(h) ==
  /\ PrefixesSound(canonical, h)
  /\ DOMAIN watch = Server
  /\ \A i \in Server : Lists(canonical, h.whole[i]) /\ WatchSound(watch[i], h.whole[i], node[i])

\* What is on record at index k was chosen in a term up to the one of the record.
RecordKept(h, k, r) ==
  /\ r.committedIn \in Nat
  /\ \E t, c \in Nat :
       /\ t <= r.committedIn /\ k <= c /\ Chosen(h, t, c)
       /\ r.term = h.led[t][k].term /\ r.cmd = h.led[t][k].cmd
       /\ r.hash = SubSeq(h.led[t], 1, k)

RecordsKept(R, h) ==
  \E b \in Nat : DOMAIN R \subseteq 1 .. b /\ \A k \in DOMAIN R : RecordKept(h, k, R[k])

\* What a state machine was fed is on the record of what was ever committed.
FedKept(F, C) == \A k \in DOMAIN F : \E r \in C : r.index = k /\ r.cmd = F[k]

\* The oracle has nothing to report.
Untroubled(h) ==
  WatchExplained(h) /\ RecordsKept(records, h) /\ FedKept(fed, committed) /\ alarms = {}

\* The inductive invariant, together with those of the cluster.
OracleInv == \E h \in History : Explains(h) /\ Untroubled(h)

\* A majority has a member besides any one server.
Several == Cardinality(InitialMembers) >= 2

-----------------------------------------------------------------------------
(* The event that the oracle looks at *)

\* One event, of node i.
OneEvent(h, g, i) ==
  /\ Explains(h) /\ Explains(g)' /\ Evolves(h, g)
  /\ \A p \in Server \ {i} : node'[p] = node[p]
  /\ leaderOfTerm \subseteq leaderOfTerm' /\ votesByTerm \subseteq votesByTerm'
  /\ committed \subseteq committed'

\* A snapshot that is installed takes a follower further than its commit index.
Installed(i, installed) ==
  installed => node'[i].snapshotIndex > node[i].commitIndex /\ node'[i].role # Leader

\* A node that does not change keeps its log.
LEMMA StillLog ==
  ASSUME IInv, IInv', NEW h, NEW g, Explains(h), Explains(g)', Evolves(h, g),
         NEW p \in Server, node'[p] = node[p]
  PROVE  g.whole[p] = h.whole[p]
<1> DEFINE n == node[p]
           u == h.whole[p]
           v == g.whole[p]
<1>1. /\ u \in Seq(LogEntry) /\ Keeping(n, u) /\ Len(u) \in Nat
      /\ n.snapshotIndex \in Nat /\ n.lastApplied \in Nat
  BY NodeReads
<1>2. v \in Seq(LogEntry) /\ Keeping(n, v) /\ (n.lastApplied # 0 => Share(u, v, n.lastApplied))
  BY StepReads
<1> HIDE DEF n, u, v
<1>3. Len(u) = Len(v) /\ n.snapshotIndex <= n.lastApplied
  BY <1>1, <1>2 DEF Keeping
<1>4. \A k \in 1 .. Len(u) : u[k] = v[k]
  <2> SUFFICES ASSUME NEW k \in 1 .. Len(u) PROVE u[k] = v[k]
    OBVIOUS
  <2>1. CASE k <= n.snapshotIndex
    <3>1. n.lastApplied # 0 /\ k \in 1 .. n.lastApplied
      BY <1>1, <1>3, <2>1
    <3> QED BY <1>2, <3>1 DEF Share
  <2>2. CASE ~(k <= n.snapshotIndex)
    <3>1. k \in n.snapshotIndex + 1 .. Len(u) /\ k \in n.snapshotIndex + 1 .. Len(v)
      BY <1>1, <1>3, <2>2
    <3> QED BY <1>1, <1>2, <3>1 DEF Keeping
  <2> QED BY <2>1, <2>2
<1>5. u = v
  BY <1>1, <1>2, <1>3, <1>4, SeqEqual
<1> QED BY <1>5 DEF u, v

\* A majority of several members has one besides server i.
LEMMA AnotherElector ==
  ASSUME Several, NEW Q \in SUBSET InitialMembers, Electors(Q), NEW i
  PROVE  \E q \in Q : q # i
<1>1. IsFiniteSet(Q) /\ Cardinality(Q) \in Nat /\ Cardinality(InitialMembers) \in Nat
  BY ServerAssumption, FS_Subset, FS_CardinalityType
<1>2. Cardinality(Q) >= 2
  BY <1>1 DEF Electors, Several
<1>3. ASSUME Q \subseteq {i} PROVE FALSE
  <2>1. Cardinality(Q) <= Cardinality({i}) /\ Cardinality({i}) = 1
    BY <1>3, FS_Subset, FS_Singleton
  <2> QED BY <1>1, <1>2, <2>1
<1> QED BY <1>3

\* What a node holds to be committed after an event, another node had before: the oracle has
\* seen it.
LEMMA ElsewhereListed ==
  ASSUME IInv, IInv', Several, NEW h, NEW g, NEW i \in Server, OneEvent(h, g, i),
         NEW c, \A p \in Server : Lists(c, h.whole[p]), NEW k \in 1 .. node'[i].commitIndex
  PROVE  k <= Len(g.whole[i]) /\ <<k, g.whole[i][k].term>> \in DOMAIN c
<1> DEFINE a == node'[i]
           v == g.whole[i]
<1>0. Explains(h) /\ Explains(g)' /\ Evolves(h, g) /\ \A p \in Server \ {i} : node'[p] = node[p]
  BY DEF OneEvent
<1>1. Rooted(g, i, a)
  BY <1>0 DEF Explains, NodesExplained
<1>2. /\ Sound(g) /\ a \in NodeState /\ a.commitIndex \in Nat /\ a.commitIndex <= Len(v)
      /\ Covered(g, v, a.commitIndex, a.currentTerm)
  BY <1>1 DEF Rooted, Sane, NodeSound, CommitSound, NodeState
<1> HIDE DEF a, v
<1>a. k \in Nat /\ 1 <= k /\ k <= a.commitIndex
  BY <1>2 DEF a
<1>3. PICK s \in Nat, b \in Nat :
        s <= a.currentTerm /\ a.commitIndex <= b /\ Chosen(g, s, b)
        /\ Share(v, g.led[s], a.commitIndex)
  BY <1>2, <1>a DEF Covered
<1>4. PICK Q \in SUBSET InitialMembers : Electors(Q) /\ \A p \in Q : g.held[p][s] >= b
  BY <1>3 DEF Chosen
<1>5. PICK q \in Q : q # i
  BY <1>4, AnotherElector
<1>6. q \in Server /\ q \in Server \ {i}
  BY <1>4, <1>5, ServerAssumption
<1>7. g \in History /\ g.held[q][s] \in Nat /\ b \in 1 .. g.held[q][s]
  <2>1. g \in History
    BY <1>2 DEF Sound
  <2>2. g.held[q][s] \in Nat
    BY <1>6, <2>1, HistoryTypes
  <2>3. g.held[q][s] >= b
    BY <1>4
  <2> QED BY <1>2, <1>3, <1>a, <2>1, <2>2, <2>3
<1>8. Share(g.whole[q], g.led[s], b)
  <2>1. \/ Share(g.whole[q], g.led[s], b)
        \/ \E r \in Nat : s < r /\ Lost(g, s, b, r)
    BY <1>2, <1>6, <1>7 DEF Sound, Kept
  <2>2. ASSUME NEW r \in Nat, s < r, Lost(g, s, b, r) PROVE FALSE
    <3>1. r \in g.terms /\ ~(b <= g.won[r] /\ Share(g.led[r], g.led[s], b))
      BY <2>2 DEF Lost
    <3>2. b <= g.won[r] /\ Share(g.led[r], g.led[s], b)
      BY <1>2, <1>3, <2>2, <3>1, Survives
    <3> QED BY <3>1, <3>2
  <2> QED BY <2>1, <2>2
<1>9. g.whole[q] = h.whole[q]
  BY <1>0, <1>6, StillLog
<1>10. k \in 1 .. a.commitIndex /\ k \in 1 .. b /\ k \in 1 .. Len(h.whole[q])
  <2>1. Len(h.whole[q]) \in Nat
    BY <1>6, <1>0, NodeReads
  <2>2. b <= Len(h.whole[q])
    BY <1>8, <1>9 DEF Share
  <2> QED BY <1>2, <1>3, <1>a, <2>1, <2>2
<1>11. v[k] = h.whole[q][k]
  BY <1>3, <1>8, <1>9, <1>10 DEF Share
<1>12. <<k, h.whole[q][k].term>> \in DOMAIN c
  BY <1>6, <1>10 DEF Lists
<1>13. k <= Len(v)
  <2>1. Len(v) \in Nat
    BY <1>0, <1>2, StepReads DEF v
  <2> QED BY <1>2, <1>a, <2>1
<1> QED BY <1>11, <1>12, <1>13 DEF v

\* The leader's entries stay, and so do their prefixes.
LEMMA LedBeginning ==
  ASSUME NEW h \in History, NEW g \in History, Follows(h, g), NEW t \in h.terms,
         NEW k \in 0 .. Len(h.led[t])
  PROVE  k \in 0 .. Len(g.led[t]) /\ SubSeq(h.led[t], 1, k) = SubSeq(g.led[t], 1, k)
<1> DEFINE u == h.led[t]
           v == g.led[t]
<1>1. /\ u \in Seq(LogEntry) /\ v \in Seq(LogEntry) /\ Len(u) \in Nat /\ Len(v) \in Nat
  BY HistoryTypes
<1>2. Len(u) <= Len(v) /\ \A j \in 1 .. Len(u) : v[j] = u[j]
  BY LedPart
<1> HIDE DEF u, v
<1>3. k \in Nat /\ k <= Len(u) /\ k <= Len(v)
  BY <1>1, <1>2 DEF u
<1>4. Share(u, v, k)
  BY <1>1, <1>2, <1>3 DEF Share
<1>5. SubSeq(u, 1, k) = SubSeq(v, 1, k)
  BY <1>1, <1>3, <1>4, SharedBeginning
<1> QED BY <1>3, <1>5, <1>1 DEF u, v

\* A log has the prefixes of the leaders that wrote it.
LEMMA KnownBeginning ==
  ASSUME NEW h \in History, NEW u \in Seq(LogEntry), Known(h, u), NEW k \in 1 .. Len(u)
  PROVE  LET t == u[k].term
         IN /\ t \in h.terms /\ k \in 1 .. Len(h.led[t])
            /\ SubSeq(u, 1, k) = SubSeq(h.led[t], 1, k)
<1> DEFINE t == u[k].term
           v == h.led[t]
<1>1. t \in h.terms /\ Share(u, v, k)
  BY DEF Known
<1>2. v \in Seq(LogEntry) /\ Len(v) \in Nat
  BY <1>1, HistoryTypes
<1>3. Len(u) \in Nat
  OBVIOUS
<1> HIDE DEF v, t
<1>4. k \in Nat /\ k <= Len(u) /\ k <= Len(v) /\ k \in 1 .. Len(v)
  BY <1>1, <1>2, <1>3 DEF Share
<1>5. SubSeq(u, 1, k) = SubSeq(v, 1, k)
  BY <1>1, <1>2, <1>4, SharedBeginning
<1> QED BY <1>1, <1>4, <1>5 DEF v, t

\* Dictionary f has the prefixes of log v that end at the indices T.
PrefixesOf(f, T, v) ==
  /\ DOMAIN f = {<<k, v[k].term>> : k \in T}
  /\ \A k \in T : f[<<k, v[k].term>>] = SubSeq(v, 1, k)

\* The prefixes stay those of leaders when the history goes on and those of a log that
\* leaders wrote are added.
LEMMA PrefixesGrow ==
  ASSUME NEW h \in History, NEW g \in History, Follows(h, g), NEW c, PrefixesSound(c, h),
         NEW v \in Seq(LogEntry), Known(g, v), NEW T \in SUBSET (1 .. Len(v)),
         NEW f, PrefixesOf(f, T, v), NEW d, d = Over(c, f)
  PROVE  /\ PrefixesSound(d, g) /\ DOMAIN c \subseteq DOMAIN d
         /\ \A k \in T : <<k, v[k].term>> \in DOMAIN d
<1>1. DOMAIN d = DOMAIN c \cup DOMAIN f
  BY DEF Over
<1>2. \A p \in DOMAIN d : d[p] = IF p \in DOMAIN c THEN c[p] ELSE f[p]
  BY DEF Over
<1>3. /\ DOMAIN f = {<<k, v[k].term>> : k \in T}
      /\ \A k \in T : f[<<k, v[k].term>>] = SubSeq(v, 1, k)
  BY DEF PrefixesOf
<1>4. ASSUME NEW k, NEW t, <<k, t>> \in DOMAIN c
      PROVE  /\ t \in g.terms /\ k \in 1 .. Len(g.led[t])
             /\ d[<<k, t>>] = SubSeq(g.led[t], 1, k)
  <2>1. t \in h.terms /\ k \in 1 .. Len(h.led[t]) /\ c[<<k, t>>] = SubSeq(h.led[t], 1, k)
    BY <1>4 DEF PrefixesSound
  <2>2. t \in g.terms /\ t \in Nat
    BY <2>1, HistoryTypes DEF Follows
  <2>3. Len(h.led[t]) \in Nat /\ Len(g.led[t]) \in Nat
    BY <2>2, HistoryTypes
  <2>4. k \in 0 .. Len(h.led[t])
    BY <2>1, <2>3
  <2>5. k \in 0 .. Len(g.led[t]) /\ SubSeq(h.led[t], 1, k) = SubSeq(g.led[t], 1, k)
    BY <2>1, <2>4, LedBeginning
  <2>6. k \in 1 .. Len(g.led[t])
    BY <2>1, <2>3, <2>5
  <2>7. d[<<k, t>>] = c[<<k, t>>]
    BY <1>1, <1>2, <1>4
  <2> QED BY <2>1, <2>2, <2>5, <2>6, <2>7
<1>5. ASSUME NEW k \in T, <<k, v[k].term>> \notin DOMAIN c
      PROVE  LET t == v[k].term
             IN /\ t \in g.terms /\ k \in 1 .. Len(g.led[t])
                /\ d[<<k, t>>] = SubSeq(g.led[t], 1, k)
  <2> DEFINE t == v[k].term
  <2>1. k \in 1 .. Len(v)
    OBVIOUS
  <2>2. t \in g.terms /\ k \in 1 .. Len(g.led[t]) /\ SubSeq(v, 1, k) = SubSeq(g.led[t], 1, k)
    BY <2>1, KnownBeginning
  <2>3. d[<<k, t>>] = f[<<k, t>>] /\ <<k, t>> \in DOMAIN f
    BY <1>1, <1>2, <1>3, <1>5
  <2>4. f[<<k, t>>] = SubSeq(v, 1, k)
    BY <1>3, <2>3
  <2> QED BY <2>2, <2>3, <2>4
<1>6. PrefixesSound(d, g)
  <2> SUFFICES ASSUME NEW k, NEW t, <<k, t>> \in DOMAIN d
               PROVE  /\ t \in g.terms /\ k \in 1 .. Len(g.led[t])
                      /\ d[<<k, t>>] = SubSeq(g.led[t], 1, k)
    BY DEF PrefixesSound
  <2>1. CASE <<k, t>> \in DOMAIN c
    BY <1>4, <2>1
  <2>2. CASE <<k, t>> \notin DOMAIN c
    <3>1. k \in T /\ t = v[k].term
      BY <1>1, <1>3, <2>2
    <3> QED BY <1>5, <2>2, <3>1
  <2> QED BY <2>1, <2>2
<1> QED BY <1>1, <1>3, <1>6

-----------------------------------------------------------------------------
(* What the oracle learns *)

\* What an event of node i makes of the node and its log is fit to be looked at.
LEMMA EventFacts ==
  ASSUME IInv, IInv', Several, NEW h, NEW g, NEW i \in Server, OneEvent(h, g, i),
         WatchExplained(h)
  PROVE  /\ h \in History /\ g \in History /\ Follows(h, g) /\ Sound(g)
         /\ node[i] \in NodeState /\ node'[i] \in NodeState
         /\ h.whole[i] \in Seq(LogEntry) /\ g.whole[i] \in Seq(LogEntry)
         /\ Keeping(node[i], h.whole[i]) /\ Keeping(node'[i], g.whole[i])
         /\ Meets(h.whole[i], g.whole[i]) /\ Known(g, g.whole[i])
         /\ node[i].snapshotIndex <= node'[i].snapshotIndex
         /\ node[i].snapshotIndex # 0 => Share(h.whole[i], g.whole[i], node[i].snapshotIndex)
         /\ PointKnown(node'[i], g.whole[i])
<1> DEFINE n == node[i]
           a == node'[i]
           u == h.whole[i]
           v == g.whole[i]
<1>0. Explains(h) /\ Explains(g)' /\ Evolves(h, g)
  BY DEF OneEvent
<1>1. /\ n \in NodeState /\ h \in History /\ u \in Seq(LogEntry) /\ Known(h, u)
      /\ n.snapshotIndex \in Nat /\ n.lastApplied \in Nat /\ n.snapshotIndex <= n.lastApplied
      /\ Keeping(n, u) /\ Len(u) \in Nat
  BY <1>0, NodeReads DEF Keeping
<1>2. /\ a \in NodeState /\ g \in History /\ v \in Seq(LogEntry) /\ Len(v) \in Nat
      /\ Keeping(a, v) /\ a.snapshotIndex \in Nat /\ n.snapshotIndex <= a.snapshotIndex
      /\ n.lastApplied # 0 => Share(u, v, n.lastApplied)
  BY <1>0, StepReads
<1>3. Rooted(g, i, a)
  BY <1>0 DEF Explains, NodesExplained
<1>4. /\ Sound(g) /\ a.snapshotIndex <= a.commitIndex /\ a.commitIndex <= Len(v)
      /\ a.commitIndex \in Nat
  BY <1>2, <1>3 DEF Rooted, NodeSound, CommitSound, NodeState
<1>5. Follows(h, g) /\ Known(g, v)
  BY <1>0, <1>4 DEF Evolves, Sound, WholeSound
<1> HIDE DEF n, a, u, v
<1>6. n.snapshotIndex # 0 => Share(u, v, n.snapshotIndex)
  BY <1>1, <1>2 DEF Share
<1>7. Meets(u, v)
  <2>1. Known(g, u)
    BY <1>1, <1>2, <1>5, KnownStays
  <2> QED BY <1>1, <1>2, <1>5, <2>1, KnownMeet DEF Meets
<1>8. ASSUME a.snapshotIndex # 0
      PROVE  /\ <<a.snapshotIndex, a.snapshotTerm>> \in DOMAIN canonical
             /\ canonical[<<a.snapshotIndex, a.snapshotTerm>>] = SubSeq(v, 1, a.snapshotIndex)
  <2> DEFINE s == a.snapshotIndex
             t == v[s].term
  <2>1. s \in 1 .. a.commitIndex /\ s \in 1 .. Len(v)
    BY <1>2, <1>4, <1>8
  <2>2. a.snapshotTerm = t
    BY <1>2, <1>8 DEF Keeping, TermOf
  <2>3. <<s, t>> \in DOMAIN canonical
    <3>1. \A p \in Server : Lists(canonical, h.whole[p])
      BY DEF WatchExplained
    <3> QED BY <2>1, <3>1, ElsewhereListed DEF a, v
  <2>4. PrefixesSound(canonical, h)
    BY DEF WatchExplained
  <2> HIDE DEF s, t
  <2>5. /\ t \in h.terms /\ s \in 1 .. Len(h.led[t])
        /\ canonical[<<s, t>>] = SubSeq(h.led[t], 1, s)
    BY <2>3, <2>4 DEF PrefixesSound
  <2>6. s \in 0 .. Len(h.led[t])
    BY <2>5
  <2>7. SubSeq(h.led[t], 1, s) = SubSeq(g.led[t], 1, s)
    BY <1>1, <1>2, <1>5, <2>5, <2>6, LedBeginning
  <2>8. SubSeq(v, 1, s) = SubSeq(g.led[t], 1, s)
    BY <1>2, <1>5, <2>1, KnownBeginning DEF t
  <2> QED BY <2>2, <2>3, <2>5, <2>7, <2>8 DEF s
<1>9. PointKnown(a, v)
  BY <1>8, Zenon DEF PointKnown
<1> QED BY <1>1, <1>2, <1>4, <1>5, <1>6, <1>7, <1>9 DEF n, a, u, v

\* What the oracle makes of an event: its prefixes are then those of the new log.
LEMMA EventValidated ==
  ASSUME IInv, IInv', Several, NEW h, NEW g, NEW i \in Server, OneEvent(h, g, i),
         WatchExplained(h), NEW installed \in BOOLEAN, Installed(i, installed),
         NEW n, n = node[i], NEW a, a = node'[i], NEW u, u = h.whole[i], NEW v, v = g.whole[i],
         NEW open, open = IF installed
                          THEN ForgetOnInstall(Cut(watch[i], Deleted(n, a, installed)))
                          ELSE Cut(watch[i], Deleted(n, a, installed)),
         NEW base, base = Prune(Anchor(open, a), a), NEW w, w = Validate(base, a)
  PROVE  /\ ~UnknownPoint(open, a)
         /\ Validated(w, v, a.snapshotIndex) /\ SameMarks(watch[i], w)
         /\ \E d \in a.snapshotIndex .. Len(v) :
              /\ ToValidate(base, a) = d + 1 .. Len(v)
              /\ \A k \in a.snapshotIndex + 1 .. d : Share(u, v, k)
<1>1. /\ n \in NodeState /\ a \in NodeState /\ u \in Seq(LogEntry) /\ v \in Seq(LogEntry)
      /\ Keeping(n, u) /\ Keeping(a, v) /\ Meets(u, v) /\ n.snapshotIndex <= a.snapshotIndex
      /\ n.snapshotIndex # 0 => Share(u, v, n.snapshotIndex)
      /\ PointKnown(a, v)
  BY EventFacts
<1>2. Validated(watch[i], u, n.snapshotIndex)
  BY DEF WatchExplained, WatchSound
<1>3. installed => a.snapshotIndex # 0
  <2>1. node[i].commitIndex \in Nat /\ a.snapshotIndex \in Nat
    BY <1>1 DEF NodeState
  <2> QED BY <2>1 DEF Installed
<1> DEFINE y == watch[i]
<1>4. /\ y = watch[i] /\ Validated(y, u, n.snapshotIndex)
      /\ open = IF installed THEN ForgetOnInstall(Cut(y, Deleted(n, a, installed)))
                ELSE Cut(y, Deleted(n, a, installed))
  BY <1>2
<1> HIDE DEF y
<1> DEFINE z == Validate(base, a)
<1>5. /\ ~UnknownPoint(open, a)
      /\ Validated(Validate(base, a), v, a.snapshotIndex) /\ SameMarks(y, Validate(base, a))
      /\ \E d \in a.snapshotIndex .. Len(v) :
           /\ ToValidate(base, a) = d + 1 .. Len(v)
           /\ \A k \in a.snapshotIndex + 1 .. d : Share(u, v, k)
  <2>1. /\ n \in NodeState /\ a \in NodeState /\ u \in Seq(LogEntry) /\ v \in Seq(LogEntry)
        /\ Keeping(n, u) /\ Keeping(a, v) /\ Meets(u, v) /\ n.snapshotIndex <= a.snapshotIndex
        /\ n.snapshotIndex # 0 => Share(u, v, n.snapshotIndex)
        /\ PointKnown(a, v) /\ Validated(y, u, n.snapshotIndex)
        /\ installed \in BOOLEAN /\ (installed => a.snapshotIndex # 0)
        /\ open = IF installed THEN ForgetOnInstall(Cut(y, Deleted(n, a, installed)))
                  ELSE Cut(y, Deleted(n, a, installed))
        /\ base = Prune(Anchor(open, a), a)
    BY <1>1, <1>3, <1>4
  <2> QED BY ONLY <2>1, LookValidated
<1> QED BY <1>4, <1>5

\* What is added to the dictionaries: the prefixes w of node a that end at the indices T, and
\* what the state machine has been fed.
FoundIn(w, a, T) == [p \in {<<k, TermAt(a, k)>> : k \in T} |-> w.hashes[p[1]]]
FedIn(n, a, installed) == [k \in Trace(n, a, installed) |-> a.sm[k]]

\* The prefixes that it has validated are all in the dictionary, and nothing else is new.
LEMMA EventListed ==
  ASSUME IInv, IInv', Several, NEW h, NEW g, NEW i \in Server, OneEvent(h, g, i),
         WatchExplained(h), NEW a, a = node'[i], NEW u, u = h.whole[i], NEW v, v = g.whole[i],
         NEW w, Validated(w, v, a.snapshotIndex),
         NEW d \in a.snapshotIndex .. Len(v), \A k \in a.snapshotIndex + 1 .. d : Share(u, v, k),
         NEW T, T = d + 1 .. Len(v),
         NEW f, f = FoundIn(w, a, T), NEW c, c = Over(canonical, f)
  PROVE  /\ PrefixesSound(c, g)
         /\ \A p \in Server : Lists(c, g.whole[p])
<1>1. /\ h \in History /\ g \in History /\ Follows(h, g) /\ a \in NodeState
      /\ u \in Seq(LogEntry) /\ v \in Seq(LogEntry) /\ Keeping(a, v) /\ Known(g, v)
  BY EventFacts
<1>2. Len(u) \in Nat /\ Len(v) \in Nat
  BY <1>1
<1>3. a.snapshotIndex \in Nat /\ d \in Nat /\ a.snapshotIndex <= d /\ d <= Len(v)
  <2>1. a.snapshotIndex \in Nat
    BY <1>1 DEF NodeState
  <2> QED BY <1>2, <2>1
<1>4. PrefixesSound(canonical, h) /\ \A p \in Server : Lists(canonical, h.whole[p])
  BY DEF WatchExplained
<1>5. \A k \in T : TermAt(a, k) = v[k].term /\ w.hashes[k] = SubSeq(v, 1, k)
  <2> SUFFICES ASSUME NEW k \in T
               PROVE  TermAt(a, k) = v[k].term /\ w.hashes[k] = SubSeq(v, 1, k)
    OBVIOUS
  <2>1. k \in a.snapshotIndex .. Len(v) /\ k # 0
    BY <1>2, <1>3
  <2>2. TermAt(a, k) = v[k].term
    BY <1>1, <2>1, KeepingReads DEF TermOf
  <2>3. w.hashes[k] = SubSeq(v, 1, k)
    BY <2>1 DEF Validated, Prefixes
  <2> QED BY <2>2, <2>3
<1>6. PrefixesOf(f, T, v)
  <2>1. {<<k, TermAt(a, k)>> : k \in T} = {<<k, v[k].term>> : k \in T}
    BY <1>5
  <2>2. \A p \in {<<k, v[k].term>> : k \in T} : f[p] = w.hashes[p[1]]
    BY <2>1 DEF FoundIn
  <2>3. DOMAIN f = {<<k, v[k].term>> : k \in T}
    BY <2>1 DEF FoundIn
  <2> QED BY <1>5, <2>2, <2>3 DEF PrefixesOf
<1>7. T \in SUBSET (1 .. Len(v))
  BY <1>2, <1>3
<1>8. /\ PrefixesSound(c, g) /\ DOMAIN canonical \subseteq DOMAIN c
      /\ \A k \in T : <<k, v[k].term>> \in DOMAIN c
  <2>1. /\ h \in History /\ g \in History /\ Follows(h, g) /\ PrefixesSound(canonical, h)
        /\ v \in Seq(LogEntry) /\ Known(g, v) /\ T \in SUBSET (1 .. Len(v)) /\ PrefixesOf(f, T, v)
        /\ c = Over(canonical, f)
    BY <1>1, <1>4, <1>6, <1>7
  <2> QED BY ONLY <2>1, PrefixesGrow
<1>9. ASSUME NEW p \in Server, NEW k \in 1 .. Len(g.whole[p])
      PROVE  <<k, g.whole[p][k].term>> \in DOMAIN c
  <2>1. CASE p # i
    <3>1. Explains(h) /\ Explains(g)' /\ Evolves(h, g) /\ node'[p] = node[p]
      BY <2>1 DEF OneEvent
    <3>2. g.whole[p] = h.whole[p]
      BY <3>1, StillLog
    <3>3. <<k, h.whole[p][k].term>> \in DOMAIN canonical
      BY <1>4, <1>9, <3>2 DEF Lists
    <3> QED BY <1>8, <3>2, <3>3
  <2>2. CASE p = i /\ k \in T
    BY <1>8, <2>2
  <2>3. CASE p = i /\ k \in a.snapshotIndex + 1 .. d
    <3>1. Share(u, v, k) /\ k \in 1 .. k /\ k <= Len(u) /\ k \in 1 .. Len(u)
      BY <1>2, <1>3, <2>3 DEF Share
    <3>2. u[k] = v[k]
      BY <3>1 DEF Share
    <3>3. <<k, u[k].term>> \in DOMAIN canonical
      BY <1>4, <3>1 DEF Lists
    <3> QED BY <1>8, <2>3, <3>2, <3>3
  <2>4. CASE p = i /\ k <= a.snapshotIndex
    <3>1. a.snapshotIndex <= a.commitIndex /\ a.commitIndex \in Nat
      <4>1. Rooted(g, i, a)
        BY DEF OneEvent, Explains, NodesExplained
      <4> QED BY <1>1, <4>1 DEF Rooted, NodeSound, CommitSound, NodeState
    <3>2. k \in 1 .. node'[i].commitIndex
      BY <1>2, <1>3, <2>4, <3>1
    <3>3. <<k, g.whole[i][k].term>> \in DOMAIN canonical
      BY <1>4, <3>2, ElsewhereListed
    <3> QED BY <1>8, <2>4, <3>3
  <2> QED BY <1>2, <1>3, <2>1, <2>2, <2>3, <2>4
<1> QED BY <1>8, <1>9 DEF Lists

\* The marks that it makes of the node are those of the node as it is.
LEMMA EventMarked ==
  ASSUME IInv, IInv', Several, NEW h, NEW g, NEW i \in Server, OneEvent(h, g, i),
         WatchExplained(h), NEW a, a = node'[i], NEW v, v = g.whole[i],
         NEW w, Validated(w, v, a.snapshotIndex), SameMarks(watch[i], w),
         watch' = [watch EXCEPT ![i] =
                     [w EXCEPT !.maxTerm = Larger(@, a.currentTerm),
                               !.snapshotAt = Larger(@, a.snapshotIndex),
                               !.commitSeen = IF a.commitIndex > @
                                              THEN Larger(@, Smaller(a.commitIndex, LastIndex(a)))
                                              ELSE @]]
  PROVE  /\ DOMAIN watch' = Server
         /\ \A p \in Server : WatchSound(watch'[p], g.whole[p], node'[p])
<1> DEFINE x == [w EXCEPT !.maxTerm = Larger(w.maxTerm, a.currentTerm),
                          !.snapshotAt = Larger(w.snapshotAt, a.snapshotIndex),
                          !.commitSeen = IF a.commitIndex > w.commitSeen
                                         THEN Larger(w.commitSeen,
                                                     Smaller(a.commitIndex, LastIndex(a)))
                                         ELSE w.commitSeen]
<1>1. DOMAIN watch = Server /\ \A p \in Server : WatchSound(watch[p], h.whole[p], node[p])
  BY DEF WatchExplained
<1>2. watch' = [watch EXCEPT ![i] = x]
  OBVIOUS
<1>3. Book(w) /\ w.hashes = Prefixes(v, a.snapshotIndex) /\ w.checked = Len(v)
  BY DEF Validated
<1>4. /\ x.maxTerm = Larger(w.maxTerm, a.currentTerm)
      /\ x.snapshotAt = Larger(w.snapshotAt, a.snapshotIndex)
      /\ x.commitSeen = IF a.commitIndex > w.commitSeen
                        THEN Larger(w.commitSeen, Smaller(a.commitIndex, LastIndex(a)))
                        ELSE w.commitSeen
      /\ x.hashes = w.hashes /\ x.checked = w.checked /\ Book(x)
  BY <1>3 DEF Book
<1> HIDE DEF x
<1>5. /\ node[i].currentTerm \in Nat /\ a.currentTerm \in Nat /\ a.snapshotIndex \in Nat
      /\ a.commitIndex \in Nat /\ node[i].snapshotIndex \in Nat /\ LastIndex(a) \in Nat
  <2>1. node[i] \in NodeState /\ a \in NodeState /\ Keeping(a, v) /\ v \in Seq(LogEntry)
    BY EventFacts
  <2>2. Len(v) \in Nat /\ LastIndex(a) = Len(v)
    BY <2>1 DEF Keeping
  <2> QED BY <2>1, <2>2 DEF NodeState
<1>6. /\ w.maxTerm \in Nat /\ w.snapshotAt \in Nat /\ w.commitSeen \in Nat
  BY <1>1 DEF WatchSound, SameMarks
<1>7. w.maxTerm <= a.currentTerm /\ w.snapshotAt <= a.snapshotIndex
  <2>1. w.maxTerm <= node[i].currentTerm /\ w.snapshotAt <= node[i].snapshotIndex
    BY <1>1 DEF WatchSound, SameMarks
  <2>2. node[i].currentTerm <= a.currentTerm /\ node[i].snapshotIndex <= a.snapshotIndex
    BY StepReads DEF OneEvent
  <2> QED BY <1>5, <1>6, <2>1, <2>2
<1>8. x.maxTerm = a.currentTerm /\ x.snapshotAt = a.snapshotIndex
  BY <1>4, <1>5, <1>6, <1>7 DEF Larger
<1>9. x.commitSeen \in Nat
  BY <1>4, <1>5, <1>6 DEF Larger, Smaller
<1>10. WatchSound(x, v, a)
  BY <1>3, <1>4, <1>5, <1>8, <1>9 DEF WatchSound, Validated
<1>11. ASSUME NEW p \in Server, p # i PROVE WatchSound(watch'[p], g.whole[p], node'[p])
  <2>1. Explains(h) /\ Explains(g)' /\ Evolves(h, g) /\ node'[p] = node[p]
    BY <1>11 DEF OneEvent
  <2>2. g.whole[p] = h.whole[p]
    BY <2>1, StillLog
  <2>3. watch'[p] = watch[p]
    BY <1>1, <1>2, <1>11
  <2> QED BY <1>1, <2>1, <2>2, <2>3
<1>12. watch'[i] = x
  BY <1>1, <1>2
<1> QED BY <1>1, <1>2, <1>10, <1>11, <1>12

-----------------------------------------------------------------------------
(* What the oracle has to report of an event: nothing *)

\* No mark goes back, and the commit index stays between the snapshot and the end of the log.
LEMMA MarksInOrder ==
  ASSUME IInv, IInv', Several, NEW h, NEW g, NEW i \in Server, OneEvent(h, g, i),
         WatchExplained(h), NEW w, SameMarks(watch[i], w)
  PROVE  /\ ~(node'[i].currentTerm < w.maxTerm) /\ ~(node'[i].snapshotIndex < w.snapshotAt)
         /\ ~(node'[i].commitIndex > LastIndex(node'[i]))
         /\ ~(node'[i].snapshotIndex > node'[i].commitIndex)
<1> DEFINE n == node[i]
           a == node'[i]
<1>0. Explains(h) /\ Explains(g)' /\ Evolves(h, g)
  BY DEF OneEvent
<1>1. n \in NodeState /\ a \in NodeState
  BY EventFacts
<1>2. /\ n.currentTerm \in Nat /\ a.currentTerm \in Nat /\ n.snapshotIndex \in Nat
      /\ a.snapshotIndex \in Nat /\ a.commitIndex \in Nat
  BY <1>1 DEF NodeState
<1>3. /\ w.maxTerm \in Nat /\ w.maxTerm <= n.currentTerm
      /\ w.snapshotAt \in Nat /\ w.snapshotAt <= n.snapshotIndex
  BY DEF WatchExplained, WatchSound, SameMarks
<1>4. n.currentTerm <= a.currentTerm /\ n.snapshotIndex <= a.snapshotIndex
  BY <1>0, StepReads
<1>5. a.snapshotIndex <= a.commitIndex /\ a.commitIndex <= LastIndex(a) /\ LastIndex(a) \in Nat
  <2>1. Rooted(g, i, a)
    BY <1>0 DEF Explains, NodesExplained
  <2>2. a.snapshotIndex <= a.commitIndex /\ a.commitIndex <= Len(g.whole[i])
    BY <2>1 DEF Rooted, NodeSound, CommitSound
  <2>3. LastIndex(a) = Len(g.whole[i]) /\ Len(g.whole[i]) \in Nat
    BY <1>0, StepReads
  <2> QED BY <2>2, <2>3
<1> HIDE DEF n
<1> QED BY <1>2, <1>3, <1>4, <1>5

\* No committed entry is deleted, and a leader deletes nothing.
LEMMA NothingLost ==
  ASSUME IInv, IInv', Several, NEW h, NEW g, NEW i \in Server, OneEvent(h, g, i),
         WatchExplained(h), NEW installed \in BOOLEAN, Installed(i, installed),
         NEW n, n = node[i], NEW a, a = node'[i]
  PROVE  LET D == Deleted(n, a, installed)
         IN ~(\E k \in D : k <= n.commitIndex) /\ ~(D # {} /\ a.role = Leader)
<1> DEFINE D == Deleted(n, a, installed)
           u == h.whole[i]
           v == g.whole[i]
<1>0. Explains(h) /\ Explains(g)' /\ Evolves(h, g)
  BY DEF OneEvent
<1>1. /\ n \in NodeState /\ a \in NodeState /\ u \in Seq(LogEntry) /\ v \in Seq(LogEntry)
      /\ Keeping(n, u) /\ Keeping(a, v)
  BY EventFacts
<1>2. /\ n.snapshotIndex \in Nat /\ n.commitIndex \in Nat /\ n.lastApplied \in Nat
      /\ n.commitIndex <= n.lastApplied /\ LastIndex(n) = Len(u) /\ Len(u) \in Nat
  BY <1>0, NodeReads
<1>3. a.snapshotIndex \in Nat /\ Len(v) \in Nat
  BY <1>0, StepReads
<1>4. n.lastApplied # 0 => Share(u, v, n.lastApplied)
  BY <1>0, StepReads
<1>5. a.role = Leader => Share(u, v, Len(u))
  BY <1>0 DEF Evolves
<1>6. \A k \in D : k \in n.snapshotIndex + 1 .. Len(u)
  BY <1>2 DEF Deleted
<1>7. CASE installed
  <2>1. a.snapshotIndex > n.commitIndex /\ a.role # Leader
    BY <1>7 DEF Installed
  <2>2. \A k \in D : k > a.snapshotIndex
    BY <1>7 DEF Deleted
  <2> HIDE DEF D
  <2>3. \A k \in D : ~(k <= n.commitIndex)
    BY <1>2, <1>3, <1>6, <2>1, <2>2
  <2> QED BY <2>1, <2>3 DEF D
<1>8. CASE ~installed
  <2>1. \A k \in D : k >= a.snapshotIndex /\ TermAt(a, k) # TermAt(n, k)
    BY <1>8 DEF Deleted
  <2> HIDE DEF D, u, v
  <2>2. ASSUME NEW k \in D, NEW c \in Nat, Share(u, v, c), k <= c PROVE FALSE
    <3>1. /\ k \in n.snapshotIndex .. Len(u) /\ k \in 1 .. c /\ k # 0
          /\ k \in a.snapshotIndex .. Len(v)
      BY <1>2, <1>3, <1>6, <2>1, <2>2 DEF Share
    <3>2. u[k] = v[k]
      BY <2>2, <3>1 DEF Share
    <3>3. TermAt(n, k) = TermOf(u, k)
      BY <1>1, <3>1, KeepingReads DEF u
    <3>4. TermAt(a, k) = TermOf(v, k)
      BY <1>1, <3>1, KeepingReads DEF v
    <3> QED BY <2>1, <3>1, <3>2, <3>3, <3>4 DEF TermOf
  <2>3. ASSUME NEW k \in D, k <= n.commitIndex PROVE FALSE
    <3>1. k \in n.snapshotIndex + 1 .. Len(u)
      BY <1>6, <2>3
    <3>2. n.lastApplied # 0 /\ k <= n.lastApplied
      BY <1>2, <2>3, <3>1
    <3> QED BY <1>2, <1>4, <2>2, <2>3, <3>2
  <2>4. ASSUME NEW k \in D, a.role = Leader PROVE FALSE
    <3>1. k <= Len(u)
      BY <1>2, <1>6, <2>4
    <3> QED BY <1>2, <1>5, <2>2, <2>4, <3>1
  <2> QED BY <2>3, <2>4 DEF D
<1> QED BY <1>7, <1>8

\* The oracle has seen no other vote of the node in its term, and no other leader of it.
LEMMA NoneBesides ==
  ASSUME ~MembershipChanges, IInv', NEW g, Explains(g)',
         votesByTerm \subseteq votesByTerm', leaderOfTerm \subseteq leaderOfTerm',
         NEW i \in Server, NEW a, a = node'[i]
  PROVE  /\ ~(a.votedFor # Nil /\
                {e[3] : e \in {f \in votesByTerm : f[1] = i /\ f[2] = a.currentTerm}}
                  \ {a.votedFor} # {})
         /\ ~(a.role = Leader /\
                {e[2] : e \in {f \in leaderOfTerm : f[1] = a.currentTerm}} \ {i} # {})
<1>1. VoteSafety' /\ LeadersElected'
  BY DEF IInv, StateInv
<1>2. ASSUME a.votedFor # Nil, NEW f \in votesByTerm, f[1] = i, f[2] = a.currentTerm
      PROVE  f[3] = a.votedFor
  <2>1. <<i, a.currentTerm, a.votedFor>> \in votesByTerm'
    BY <1>2 DEF Explains, OfficesExplained, VotesSeen
  <2>2. f \in votesByTerm'
    OBVIOUS
  <2> QED BY <1>1, <1>2, <2>1, <2>2 DEF VoteSafety
<1>3. ASSUME a.role = Leader, NEW f \in leaderOfTerm, f[1] = a.currentTerm PROVE f[2] = i
  <2>1. <<a.currentTerm, i>> \in leaderOfTerm'
    BY <1>1, <1>3 DEF LeadersElected
  <2>2. f \in leaderOfTerm'
    OBVIOUS
  <2>3. PICK Q \in SUBSET InitialMembers :
          Electors(Q) /\ \A p \in Q : <<p, a.currentTerm, i>> \in votesByTerm'
    BY <1>1, <2>1 DEF LeadersElected, VotesFor
  <2>4. PICK R \in SUBSET InitialMembers :
          Electors(R) /\ \A p \in R : <<p, f[1], f[2]>> \in votesByTerm'
    BY <1>1, <2>2 DEF LeadersElected, VotesFor
  <2>5. PICK p \in Q \cap R : TRUE
    BY <2>3, <2>4, ElectorsMeet
  <2>6. <<p, a.currentTerm, i>> \in votesByTerm' /\ <<p, f[1], f[2]>> \in votesByTerm'
    BY <2>3, <2>4, <2>5
  <2> QED BY <1>1, <1>3, <2>6 DEF VoteSafety
<1> QED BY <1>2, <1>3

\* A prefix that was known already is the one that is found now.
LEMMA PrefixesAgree ==
  ASSUME IInv, IInv', Several, NEW h, NEW g, NEW i \in Server, OneEvent(h, g, i),
         WatchExplained(h), NEW a, a = node'[i], NEW v, v = g.whole[i],
         NEW w, Validated(w, v, a.snapshotIndex), NEW k \in a.snapshotIndex + 1 .. Len(v),
         <<k, TermAt(a, k)>> \in DOMAIN canonical
  PROVE  canonical[<<k, TermAt(a, k)>>] = w.hashes[k]
<1>1. /\ h \in History /\ g \in History /\ Follows(h, g) /\ a \in NodeState
      /\ v \in Seq(LogEntry) /\ Keeping(a, v) /\ Known(g, v)
  BY EventFacts
<1>2. Len(v) \in Nat /\ a.snapshotIndex \in Nat
  <2>1. Len(v) \in Nat
    BY <1>1
  <2>2. a.snapshotIndex \in Nat
    BY <1>1 DEF NodeState
  <2> QED BY <2>1, <2>2
<1>3. k \in a.snapshotIndex .. Len(v) /\ k \in 1 .. Len(v) /\ k # 0
  BY <1>2
<1> DEFINE t == v[k].term
<1>4. TermAt(a, k) = t
  BY <1>1, <1>3, KeepingReads DEF TermOf
<1>5. w.hashes[k] = SubSeq(v, 1, k)
  BY <1>3 DEF Validated, Prefixes
<1>6. SubSeq(v, 1, k) = SubSeq(g.led[t], 1, k)
  BY <1>1, <1>3, KnownBeginning
<1> HIDE DEF t
<1>7. /\ t \in h.terms /\ k \in 1 .. Len(h.led[t])
      /\ canonical[<<k, t>>] = SubSeq(h.led[t], 1, k)
  BY <1>4 DEF WatchExplained, PrefixesSound
<1>8. k \in 0 .. Len(h.led[t])
  BY <1>7
<1>9. SubSeq(h.led[t], 1, k) = SubSeq(g.led[t], 1, k)
  BY <1>1, <1>7, <1>8, LedBeginning
<1> QED BY <1>4, <1>5, <1>6, <1>7, <1>9

\* What was chosen in two terms is the same as far as both go.
LEMMA ChosenAgree ==
  ASSUME NEW h, Sound(h), NEW s \in Nat, NEW t \in Nat, NEW b \in Nat, NEW c \in Nat,
         Chosen(h, s, b), Chosen(h, t, c), NEW k \in 1 .. b, k <= c
  PROVE  Share(h.led[s], h.led[t], k)
<1>1. /\ s \in h.terms /\ t \in h.terms /\ b <= Len(h.led[s]) /\ c <= Len(h.led[t])
  BY DEF Chosen
<1>2. Len(h.led[s]) \in Nat /\ Len(h.led[t]) \in Nat
  BY HistoryTypes DEF Sound
<1>3. CASE s = t
  BY <1>1, <1>2, <1>3 DEF Share
<1>4. CASE s < t
  <2>1. Share(h.led[t], h.led[s], b)
    BY <1>1, <1>4, Survives
  <2> QED BY <1>1, <1>2, <2>1 DEF Share
<1>5. CASE t < s
  <2>1. Share(h.led[s], h.led[t], c)
    BY <1>1, <1>5, Survives
  <2> QED BY <1>1, <1>2, <2>1 DEF Share
<1> QED BY <1>3, <1>4, <1>5

\* What is on record stays so when the history goes on.
LEMMA RecordStays ==
  ASSUME NEW h \in History, NEW g \in History, Follows(h, g), NEW k \in Nat \ {0},
         NEW r, RecordKept(h, k, r)
  PROVE  RecordKept(g, k, r)
<1>1. PICK t \in Nat, c \in Nat :
        /\ t <= r.committedIn /\ k <= c /\ Chosen(h, t, c)
        /\ r.term = h.led[t][k].term /\ r.cmd = h.led[t][k].cmd
        /\ r.hash = SubSeq(h.led[t], 1, k)
  BY DEF RecordKept
<1>2. t \in h.terms /\ c <= Len(h.led[t]) /\ Len(h.led[t]) \in Nat
  BY <1>1, HistoryTypes DEF Chosen
<1>3. k \in 1 .. Len(h.led[t]) /\ k \in 0 .. Len(h.led[t])
  BY <1>1, <1>2
<1>4. Chosen(g, t, c)
  BY <1>1, ChosenStays
<1>5. g.led[t][k] = h.led[t][k]
  BY <1>2, <1>3, LedPart
<1>6. SubSeq(h.led[t], 1, k) = SubSeq(g.led[t], 1, k)
  BY <1>2, <1>3, LedBeginning
<1> QED BY <1>1, <1>4, <1>5, <1>6 DEF RecordKept

\* What a node holds to be committed and the oracle records now was chosen, and is what is on
\* record if anything is.
LEMMA NewsKept ==
  ASSUME IInv, IInv', Several, NEW h, NEW g, NEW i \in Server, OneEvent(h, g, i),
         WatchExplained(h), NEW a, a = node'[i], NEW v, v = g.whole[i],
         NEW w, Validated(w, v, a.snapshotIndex), w.commitSeen \in Nat, NEW k \in News(w, a)
  PROVE  /\ k \in 1 .. a.commitIndex
         /\ RecordKept(g, k, Record(w, a, k))
         /\ \A r : RecordKept(g, k, r) => r.term = TermAt(a, k) /\ r.cmd = CommandAt(a, k)
<1>1. /\ g \in History /\ Sound(g) /\ a \in NodeState
      /\ v \in Seq(LogEntry) /\ Keeping(a, v)
  BY EventFacts
<1>2. /\ Len(v) \in Nat /\ a.snapshotIndex \in Nat /\ a.commitIndex \in Nat
      /\ a.currentTerm \in Nat /\ LastIndex(a) = Len(v)
  <2>1. a.snapshotIndex \in Nat /\ a.commitIndex \in Nat /\ a.currentTerm \in Nat
    BY <1>1 DEF NodeState
  <2>2. Len(v) \in Nat
    BY <1>1
  <2> QED BY <1>1, <2>1, <2>2 DEF Keeping
<1>3. k \in a.snapshotIndex + 1 .. Len(v) /\ k <= a.commitIndex
  BY <1>2 DEF News, Larger, Smaller
<1>4. /\ k \in a.snapshotIndex .. Len(v) /\ k \in 1 .. a.commitIndex /\ k # 0 /\ k \in Nat
      /\ k <= Len(v)
  BY <1>2, <1>3
<1>5. TermAt(a, k) = v[k].term /\ CommandAt(a, k) = v[k].cmd
  BY <1>1, <1>3, <1>4, KeepingReads DEF TermOf
<1>6. w.hashes[k] = SubSeq(v, 1, k)
  BY <1>4 DEF Validated, Prefixes
<1>7. Covered(g, v, a.commitIndex, a.currentTerm)
  <2>1. Rooted(g, i, a)
    BY DEF OneEvent, Explains, NodesExplained
  <2> QED BY <2>1 DEF Rooted, NodeSound, CommitSound
<1>8. PICK s \in Nat, b \in Nat :
        /\ s <= a.currentTerm /\ a.commitIndex <= b /\ Chosen(g, s, b)
        /\ Share(v, g.led[s], a.commitIndex)
  BY <1>2, <1>4, <1>7 DEF Covered
<1>9. g.led[s] \in Seq(LogEntry) /\ Len(g.led[s]) \in Nat
  BY <1>1, HistoryTypes
<1>10. Share(v, g.led[s], k) /\ v[k] = g.led[s][k] /\ k <= Len(g.led[s])
  <2> DEFINE x == g.led[s]
             c == a.commitIndex
  <2>1. /\ c \in Nat /\ k \in 1 .. c /\ Len(x) \in Nat
        /\ c <= Len(v) /\ c <= Len(x) /\ \A j \in 1 .. c : v[j] = x[j]
    BY <1>2, <1>4, <1>8, <1>9 DEF Share
  <2> HIDE DEF x, c
  <2>2. Share(v, x, k) /\ v[k] = x[k] /\ k <= Len(x)
    BY <1>2, <2>1 DEF Share
  <2> QED BY <2>2 DEF x
<1>11. SubSeq(v, 1, k) = SubSeq(g.led[s], 1, k)
  BY <1>1, <1>4, <1>9, <1>10, SharedBeginning
<1>12. k <= b /\ k \in 1 .. b
  BY <1>2, <1>4, <1>8
<1>13. RecordKept(g, k, Record(w, a, k))
  <2> DEFINE r == Record(w, a, k)
  <2>1. /\ r.term = v[k].term /\ r.cmd = v[k].cmd /\ r.hash = SubSeq(v, 1, k)
        /\ r.committedIn = a.currentTerm
    BY <1>5, <1>6 DEF Record
  <2> HIDE DEF r
  <2>2. RecordKept(g, k, r)
    BY <1>2, <1>8, <1>10, <1>11, <1>12, <2>1 DEF RecordKept
  <2> QED BY <2>2 DEF r
<1>14. ASSUME NEW r, RecordKept(g, k, r)
       PROVE  r.term = TermAt(a, k) /\ r.cmd = CommandAt(a, k)
  <2>1. PICK t \in Nat, c \in Nat :
          /\ k <= c /\ Chosen(g, t, c)
          /\ r.term = g.led[t][k].term /\ r.cmd = g.led[t][k].cmd
    BY <1>14 DEF RecordKept
  <2>2. Share(g.led[s], g.led[t], k)
    BY <1>1, <1>8, <1>12, <2>1, ChosenAgree
  <2>3. k \in 1 .. k
    BY <1>4
  <2>4. g.led[s][k] = g.led[t][k]
    BY <2>2, <2>3 DEF Share
  <2> QED BY <1>5, <1>10, <2>1, <2>4
<1> QED BY <1>4, <1>13, <1>14

\* A leader has what is on record of earlier terms.
LEMMA LeaderHasAll ==
  ASSUME IInv, IInv', Several, NEW h, NEW g, NEW i \in Server, OneEvent(h, g, i),
         WatchExplained(h), RecordsKept(records, h), NEW a, a = node'[i],
         NEW v, v = g.whole[i], NEW w, Validated(w, v, a.snapshotIndex)
  PROVE  ~(a.role = Leader /\ LacksCommitted(w, a))
<1> SUFFICES ASSUME a.role = Leader PROVE ~LacksCommitted(w, a)
  OBVIOUS
<1>1. /\ h \in History /\ g \in History /\ Follows(h, g) /\ Sound(g) /\ a \in NodeState
      /\ v \in Seq(LogEntry) /\ Keeping(a, v)
  BY EventFacts
<1>2. /\ Len(v) \in Nat /\ a.snapshotIndex \in Nat /\ a.currentTerm \in Nat
      /\ LastIndex(a) = Len(v)
  <2>1. a.snapshotIndex \in Nat /\ a.currentTerm \in Nat
    BY <1>1 DEF NodeState
  <2>2. Len(v) \in Nat
    BY <1>1
  <2> QED BY <1>1, <2>1, <2>2 DEF Keeping
<1>3. a.currentTerm \in g.terms /\ v = g.led[a.currentTerm]
  BY StepReads DEF OneEvent, LeaderSound
<1> DEFINE earlier == {k \in DOMAIN records : records[k].committedIn < a.currentTerm}
           last == Largest({0} \cup earlier)
<1>4. PICK b \in Nat :
        DOMAIN records \subseteq 1 .. b /\ \A k \in DOMAIN records : RecordKept(h, k, records[k])
  BY DEF RecordsKept
<1>5. last \in {0} \cup earlier
  <2>1. {0} \cup earlier \in SUBSET Nat /\ \A y \in {0} \cup earlier : y <= b
    BY <1>4
  <2> HIDE DEF earlier
  <2> QED BY <2>1, LargestType
<1>6. ASSUME last > a.snapshotIndex
      PROVE  /\ ~(LastIndex(a) < last) /\ last \in DOMAIN w.hashes
             /\ w.hashes[last] = records[last].hash
  <2>1. last \in earlier /\ last \in Nat \ {0}
    BY <1>2, <1>4, <1>5, <1>6
  <2>2. RecordKept(h, last, records[last]) /\ records[last].committedIn < a.currentTerm
    BY <1>4, <2>1
  <2> HIDE DEF earlier, last
  <2>3. RecordKept(g, last, records[last])
    BY <1>1, <2>1, <2>2, RecordStays
  <2>4. PICK t \in Nat, c \in Nat :
          /\ t <= records[last].committedIn /\ last <= c /\ Chosen(g, t, c)
          /\ records[last].hash = SubSeq(g.led[t], 1, last)
    BY <2>3 DEF RecordKept
  <2>5. t < a.currentTerm
    <3>1. records[last].committedIn \in Nat
      BY <2>3 DEF RecordKept
    <3> QED BY <1>2, <2>2, <2>4, <3>1
  <2>6. Share(v, g.led[t], c)
    BY <1>1, <1>3, <2>4, <2>5, Survives
  <2>7. g.led[t] \in Seq(LogEntry) /\ Len(g.led[t]) \in Nat
    BY <1>1, HistoryTypes
  <2>8. last <= Len(v) /\ last <= Len(g.led[t]) /\ Share(v, g.led[t], last)
    BY <1>2, <2>1, <2>4, <2>6, <2>7 DEF Share
  <2>9. SubSeq(v, 1, last) = SubSeq(g.led[t], 1, last)
    BY <1>1, <2>1, <2>7, <2>8, SharedBeginning
  <2>10. last \in a.snapshotIndex .. Len(v)
    BY <1>2, <1>6, <2>1, <2>8
  <2>11. last \in DOMAIN w.hashes /\ w.hashes[last] = SubSeq(v, 1, last)
    BY <2>10 DEF Validated, Prefixes
  <2> QED BY <1>2, <2>1, <2>4, <2>8, <2>9, <2>11
<1> HIDE DEF earlier, last
<1>7. ~(/\ last > a.snapshotIndex
        /\ \/ LastIndex(a) < last
           \/ last \notin DOMAIN w.hashes
           \/ w.hashes[last] # records[last].hash)
  BY <1>6
<1> QED BY <1>7 DEF LacksCommitted, last, earlier

\* The record grows by what was chosen.
LEMMA RecordsGrow ==
  ASSUME IInv, IInv', Several, NEW h, NEW g, NEW i \in Server, OneEvent(h, g, i),
         WatchExplained(h), RecordsKept(records, h), NEW a, a = node'[i],
         NEW v, v = g.whole[i], NEW w, Validated(w, v, a.snapshotIndex), w.commitSeen \in Nat,
         NEW R, R = Over(records, [k \in News(w, a) \cap DOMAIN w.hashes |-> Record(w, a, k)])
  PROVE  RecordsKept(R, g)
<1> DEFINE N == News(w, a) \cap DOMAIN w.hashes
           f == [k \in N |-> Record(w, a, k)]
<1>1. h \in History /\ g \in History /\ Follows(h, g) /\ a \in NodeState
  BY EventFacts
<1>2. a.commitIndex \in Nat
  BY <1>1 DEF NodeState
<1>3. PICK b \in Nat :
        DOMAIN records \subseteq 1 .. b /\ \A k \in DOMAIN records : RecordKept(h, k, records[k])
  BY DEF RecordsKept
<1>4. /\ DOMAIN R = DOMAIN records \cup N
      /\ \A k \in DOMAIN records : R[k] = records[k]
      /\ \A k \in N : k \notin DOMAIN records => R[k] = Record(w, a, k)
  <2>1. R = Over(records, f) /\ DOMAIN f = N /\ \A k \in N : f[k] = Record(w, a, k)
    OBVIOUS
  <2> HIDE DEF f, N
  <2> QED BY <2>1 DEF Over
<1>5. ASSUME NEW k \in N PROVE k \in 1 .. a.commitIndex /\ RecordKept(g, k, Record(w, a, k))
  BY NewsKept
<1> HIDE DEF N
<1>6. ASSUME NEW k \in DOMAIN records PROVE RecordKept(g, k, records[k])
  <2>1. k \in Nat \ {0} /\ RecordKept(h, k, records[k])
    BY <1>3
  <2> QED BY <1>1, <2>1, RecordStays
<1>7. ASSUME NEW k \in DOMAIN R PROVE RecordKept(g, k, R[k])
  BY <1>4, <1>5, <1>6
<1> DEFINE c == Larger(b, a.commitIndex)
<1>8. c \in Nat /\ b <= c /\ a.commitIndex <= c
  BY <1>2 DEF Larger
<1> HIDE DEF c
<1>9. DOMAIN R \subseteq 1 .. c
  <2>1. \A k \in N : k \in 1 .. c
    BY <1>2, <1>5, <1>8
  <2>2. \A k \in DOMAIN records : k \in 1 .. c
    BY <1>3, <1>8
  <2> QED BY <1>4, <2>1, <2>2
<1> QED BY <1>7, <1>8, <1>9 DEF RecordsKept

\* What was recorded of one index is one entry.
LEMMA SoundAgree ==
  ASSUME NEW h, Sound(h), NEW r, RecordSound(h, r), NEW q, RecordSound(h, q), r.index = q.index
  PROVE  r.cmd = q.cmd
<1>1. PICK t \in Nat, b \in Nat :
        r.index <= b /\ Chosen(h, t, b) /\ r.cmd = h.led[t][r.index].cmd
  BY DEF RecordSound
<1>2. PICK s \in Nat, c \in Nat :
        q.index <= c /\ Chosen(h, s, c) /\ q.cmd = h.led[s][q.index].cmd
  BY DEF RecordSound
<1> DEFINE k == r.index
<1>3. k \in Nat \ {0}
  BY DEF RecordSound
<1>4. k \in 1 .. b /\ k <= c /\ k \in 1 .. k
  BY <1>1, <1>2, <1>3
<1> HIDE DEF k
<1>5. Share(h.led[t], h.led[s], k)
  BY <1>1, <1>2, <1>4, ChosenAgree
<1>6. h.led[t][k] = h.led[s][k]
  BY <1>4, <1>5 DEF Share
<1> QED BY <1>1, <1>2, <1>6 DEF k

\* What a state machine is fed in an event is on the record, and is what others were fed.
LEMMA TraceKept ==
  ASSUME IInv, IInv', Several, NEW h, NEW g, NEW i \in Server, OneEvent(h, g, i),
         WatchExplained(h), FedKept(fed, committed), NEW installed,
         NEW n, n = node[i], NEW a, a = node'[i],
         NEW F, F = Over(fed, FedIn(n, a, installed))
  PROVE  /\ FedKept(F, committed')
         /\ \A k \in Trace(n, a, installed) \cap DOMAIN fed : fed[k] = a.sm[k]
<1> DEFINE T == Trace(n, a, installed)
           f == FedIn(n, a, installed)
           v == g.whole[i]
<1>1. /\ Sound(g) /\ n \in NodeState /\ a \in NodeState /\ Keeping(a, v) /\ v \in Seq(LogEntry)
  BY EventFacts
<1>2. n.lastApplied \in Nat /\ a.lastApplied \in Nat /\ a.sm \in Seq(Command)
  BY <1>1 DEF NodeState
<1>3. DOMAIN a.sm = 1 .. a.lastApplied
  <2>1. a.sm = Commands(v, a.lastApplied)
    BY <1>1 DEF Keeping
  <2> QED BY <2>1 DEF Commands
<1>4. Len(a.sm) = a.lastApplied
  BY <1>2, <1>3
<1>5. \A k \in T : k \in 1 .. Len(a.sm)
  <2>1. T \subseteq n.lastApplied + 1 .. a.lastApplied
    BY DEF Trace
  <2> HIDE DEF T
  <2> QED BY <1>2, <1>4, <2>1
<1>6. \A k \in 1 .. Len(a.sm) : \E r \in committed' : r.index = k /\ r.cmd = a.sm[k]
  BY DEF OneEvent, Explains, NodesExplained, Recorded
<1>7. \A r \in committed' : RecordSound(g, r)
  BY DEF OneEvent, Explains, RecordsExplained
<1>8. committed \subseteq committed'
  BY DEF OneEvent
<1>9. /\ DOMAIN F = DOMAIN fed \cup T
      /\ \A k \in DOMAIN fed : F[k] = fed[k]
      /\ \A k \in T : k \notin DOMAIN fed => F[k] = a.sm[k]
  <2>1. F = Over(fed, f) /\ DOMAIN f = T /\ \A k \in T : f[k] = a.sm[k]
    BY DEF FedIn
  <2> HIDE DEF f, T
  <2> QED BY <2>1 DEF Over
<1> HIDE DEF T
<1>10. FedKept(F, committed')
  <2> SUFFICES ASSUME NEW k \in DOMAIN F
               PROVE  \E r \in committed' : r.index = k /\ r.cmd = F[k]
    BY DEF FedKept
  <2>1. CASE k \in DOMAIN fed
    <3>1. PICK r \in committed : r.index = k /\ r.cmd = fed[k]
      BY <2>1 DEF FedKept
    <3> QED BY <1>8, <1>9, <2>1, <3>1
  <2>2. CASE k \notin DOMAIN fed
    <3>1. k \in T /\ F[k] = a.sm[k]
      BY <1>9, <2>2
    <3> QED BY <1>5, <1>6, <3>1
  <2> QED BY <2>1, <2>2
<1>11. ASSUME NEW k \in T, k \in DOMAIN fed PROVE fed[k] = a.sm[k]
  <2>1. PICK r \in committed : r.index = k /\ r.cmd = fed[k]
    BY <1>11 DEF FedKept
  <2>2. PICK q \in committed' : q.index = k /\ q.cmd = a.sm[k]
    BY <1>5, <1>6
  <2>3. RecordSound(g, r) /\ RecordSound(g, q)
    BY <1>7, <1>8
  <2>4. r.cmd = q.cmd
    BY <1>1, <2>1, <2>2, <2>3, SoundAgree
  <2> QED BY <2>1, <2>2, <2>4
<1> QED BY <1>10, <1>11 DEF T

\* A look is one way of learning and of reporting.
LEMMA LookOnce ==
  ASSUME NEW i, NEW n, NEW a, NEW installed, Look(i, n, a, installed)
  PROVE  \E D, open, base, w :
           /\ D = Deleted(n, a, installed)
           /\ open = IF installed THEN ForgetOnInstall(Cut(watch[i], D)) ELSE Cut(watch[i], D)
           /\ base = Prune(Anchor(open, a), a) /\ w = Validate(base, a)
           /\ Learn(i, n, a, installed, base, w)
           /\ alarms' = alarms \cup Report(i, n, a, installed, D, open, base, w)
BY Zenon DEF Look

\* Nothing is reported if no check fails.
LEMMA NothingReported ==
  ASSUME NEW i, NEW n, NEW a, NEW installed, NEW D, NEW open, NEW base, NEW w,
         ~(a.currentTerm < w.maxTerm), ~(a.commitIndex > LastIndex(a)),
         ~(a.snapshotIndex > a.commitIndex), ~(a.snapshotIndex < w.snapshotAt),
         ~(\E k \in D : k <= n.commitIndex), ~(D # {} /\ a.role = Leader),
         ~UnknownPoint(open, a),
         ~(a.votedFor # Nil /\
             {e[3] : e \in {f \in votesByTerm : f[1] = i /\ f[2] = a.currentTerm}}
               \ {a.votedFor} # {}),
         ~(a.role = Leader /\
             {e[2] : e \in {f \in leaderOfTerm : f[1] = a.currentTerm}} \ {i} # {}),
         \A k \in ToValidate(base, a) :
           <<k, TermAt(a, k)>> \in DOMAIN canonical =>
             canonical[<<k, TermAt(a, k)>>] = w.hashes[k],
         ~(a.role = Leader /\ LacksCommitted(w, a)),
         \A k \in News(w, a) \cap DOMAIN records :
           records[k].term = TermAt(a, k) /\ records[k].cmd = CommandAt(a, k),
         \A k \in Trace(n, a, installed) \cap DOMAIN fed : fed[k] = a.sm[k]
  PROVE  Report(i, n, a, installed, D, open, base, w) = {}
<1>1. \A kind : \A raised \in BOOLEAN : ~raised => Alarm(kind, raised) = {}
  BY DEF Alarm
<1> DEFINE Owners == {e[2] : e \in {f \in leaderOfTerm : f[1] = a.currentTerm}}
           Votes == {e[3] : e \in {f \in votesByTerm : f[1] = i /\ f[2] = a.currentTerm}}
<1>2. /\ Alarm("TermRegression", a.currentTerm < w.maxTerm) = {}
      /\ Alarm("VoteSafety", a.votedFor # Nil /\ Votes \ {a.votedFor} # {}) = {}
      /\ Alarm("CommitBeyondLog", a.commitIndex > LastIndex(a)) = {}
      /\ Alarm("SnapshotBeyondCommit", a.snapshotIndex > a.commitIndex) = {}
      /\ Alarm("SnapshotRegression", a.snapshotIndex < w.snapshotAt) = {}
      /\ Alarm("TruncatedCommitted", \E k \in D : k <= n.commitIndex) = {}
  BY Zenon DEF Alarm
<1>3. /\ Alarm("LeaderAppendOnly", D # {} /\ a.role = Leader) = {}
      /\ Alarm("SnapshotUnknownPoint", UnknownPoint(open, a)) = {}
      /\ Alarm("LogMatching", \E k \in ToValidate(base, a) :
             /\ <<k, TermAt(a, k)>> \in DOMAIN canonical
             /\ canonical[<<k, TermAt(a, k)>>] # w.hashes[k]) = {}
      /\ Alarm("ElectionSafety", a.role = Leader /\ Owners \ {i} # {}) = {}
  BY Zenon DEF Alarm
<1>4. /\ Alarm("LeaderCompleteness",
               a.role = Leader /\ Owners = {} /\ LacksCommitted(w, a)) = {}
      /\ Alarm("CommittedEntryChanged", \E k \in News(w, a) \cap DOMAIN records :
             records[k].term # TermAt(a, k) \/ records[k].cmd # CommandAt(a, k)) = {}
      /\ Alarm("StateMachineSafety",
               \E k \in Trace(n, a, installed) \cap DOMAIN fed : fed[k] # a.sm[k]) = {}
  BY Zenon DEF Alarm
<1> QED BY <1>2, <1>3, <1>4, Zenon DEF Report

\* An event that the oracle looks at leaves it with nothing to report, and with all of the
\* logs validated.
LEMMA LookQuiet ==
  ASSUME IInv, IInv', ~MembershipChanges, Several, NEW h, NEW g, NEW i \in Server,
         OneEvent(h, g, i), Untroubled(h), NEW installed \in BOOLEAN, Installed(i, installed),
         Look(i, node[i], node'[i], installed)
  PROVE  Untroubled(g)'
<1> DEFINE n == node[i]
           a == node'[i]
           u == h.whole[i]
           v == g.whole[i]
<1>1. WatchExplained(h) /\ RecordsKept(records, h) /\ FedKept(fed, committed) /\ alarms = {}
  BY DEF Untroubled
<1>2. PICK D, open, base, w :
        /\ D = Deleted(n, a, installed)
        /\ open = IF installed THEN ForgetOnInstall(Cut(watch[i], D)) ELSE Cut(watch[i], D)
        /\ base = Prune(Anchor(open, a), a) /\ w = Validate(base, a)
        /\ Learn(i, n, a, installed, base, w)
        /\ alarms' = alarms \cup Report(i, n, a, installed, D, open, base, w)
  <2> HIDE DEF n, a
  <2>1. Look(i, n, a, installed)
    BY DEF n, a
  <2> QED BY <2>1, LookOnce
<1>3. /\ n = node[i] /\ a = node'[i] /\ u = h.whole[i] /\ v = g.whole[i]
  OBVIOUS
<1> HIDE DEF n, a, u, v
<1>4. /\ ~UnknownPoint(open, a)
      /\ Validated(w, v, a.snapshotIndex) /\ SameMarks(watch[i], w)
      /\ \E d \in a.snapshotIndex .. Len(v) :
           /\ ToValidate(base, a) = d + 1 .. Len(v)
           /\ \A k \in a.snapshotIndex + 1 .. d : Share(u, v, k)
  <2>1. open = IF installed THEN ForgetOnInstall(Cut(watch[i], Deleted(n, a, installed)))
               ELSE Cut(watch[i], Deleted(n, a, installed))
    BY <1>2
  <2>2. /\ IInv /\ IInv' /\ Several /\ i \in Server /\ OneEvent(h, g, i) /\ WatchExplained(h)
        /\ installed \in BOOLEAN /\ Installed(i, installed)
        /\ n = node[i] /\ a = node'[i] /\ u = h.whole[i] /\ v = g.whole[i]
        /\ base = Prune(Anchor(open, a), a) /\ w = Validate(base, a)
    BY <1>1, <1>2, <1>3
  <2> QED BY ONLY <2>1, <2>2, EventValidated
<1>5. PICK d \in a.snapshotIndex .. Len(v) :
        /\ ToValidate(base, a) = d + 1 .. Len(v)
        /\ \A k \in a.snapshotIndex + 1 .. d : Share(u, v, k)
  BY <1>4
<1>6. PrefixesSound(canonical', g) /\ \A p \in Server : Lists(canonical', g.whole[p])
  <2>1. canonical' = Over(canonical, FoundIn(w, a, ToValidate(base, a)))
    BY <1>2 DEF Learn, FoundIn
  <2> DEFINE T == ToValidate(base, a)
             f == FoundIn(w, a, T)
  <2>2. /\ IInv /\ IInv' /\ Several /\ i \in Server /\ OneEvent(h, g, i) /\ WatchExplained(h)
        /\ a = node'[i] /\ u = h.whole[i] /\ v = g.whole[i] /\ Validated(w, v, a.snapshotIndex)
        /\ d \in a.snapshotIndex .. Len(v)
        /\ \A k \in a.snapshotIndex + 1 .. d : Share(u, v, k)
        /\ T = d + 1 .. Len(v) /\ f = FoundIn(w, a, T)
        /\ canonical' = Over(canonical, f)
    BY <1>1, <1>3, <1>4, <1>5, <2>1
  <2> HIDE DEF T, f
  <2> DEFINE c == canonical'
  <2>3. c = Over(canonical, f)
    BY <2>2
  <2> HIDE DEF c
  <2>4. PrefixesSound(c, g) /\ \A p \in Server : Lists(c, g.whole[p])
    BY ONLY <2>2, <2>3, EventListed
  <2> QED BY <2>4 DEF c
<1>7. DOMAIN watch' = Server /\ \A p \in Server : WatchSound(watch'[p], g.whole[p], node'[p])
  <2>1. watch' = [watch EXCEPT ![i] =
                    [w EXCEPT !.maxTerm = Larger(@, a.currentTerm),
                              !.snapshotAt = Larger(@, a.snapshotIndex),
                              !.commitSeen = IF a.commitIndex > @
                                             THEN Larger(@, Smaller(a.commitIndex, LastIndex(a)))
                                             ELSE @]]
    BY <1>2 DEF Learn
  <2> QED BY <1>1, <1>3, <1>4, <2>1, EventMarked
<1>8. w.commitSeen \in Nat
  BY <1>1, <1>4 DEF WatchExplained, WatchSound, SameMarks
<1>9. RecordsKept(records', g)
  <2>1. records' = Over(records, [k \in News(w, a) \cap DOMAIN w.hashes |-> Record(w, a, k)])
    BY <1>2 DEF Learn
  <2> QED BY <1>1, <1>3, <1>4, <1>8, <2>1, RecordsGrow
<1>10. /\ FedKept(fed', committed')
       /\ \A k \in Trace(n, a, installed) \cap DOMAIN fed : fed[k] = a.sm[k]
  <2>1. fed' = Over(fed, FedIn(n, a, installed))
    BY <1>2 DEF Learn, FedIn
  <2> DEFINE F == fed'
  <2>2. /\ IInv /\ IInv' /\ Several /\ i \in Server /\ OneEvent(h, g, i) /\ WatchExplained(h)
        /\ FedKept(fed, committed) /\ n = node[i] /\ a = node'[i]
        /\ F = Over(fed, FedIn(n, a, installed))
    BY <1>1, <1>3, <2>1
  <2> HIDE DEF F
  <2>3. /\ FedKept(F, committed')
        /\ \A k \in Trace(n, a, installed) \cap DOMAIN fed : fed[k] = a.sm[k]
    BY ONLY <2>2, TraceKept
  <2> QED BY <2>3 DEF F
<1>11. /\ ~(a.currentTerm < w.maxTerm) /\ ~(a.snapshotIndex < w.snapshotAt)
       /\ ~(a.commitIndex > LastIndex(a)) /\ ~(a.snapshotIndex > a.commitIndex)
  BY <1>1, <1>3, <1>4, MarksInOrder
<1>12. ~(\E k \in D : k <= n.commitIndex) /\ ~(D # {} /\ a.role = Leader)
  BY <1>1, <1>2, <1>3, NothingLost
<1>13. /\ ~(a.votedFor # Nil /\
              {e[3] : e \in {f \in votesByTerm : f[1] = i /\ f[2] = a.currentTerm}}
                \ {a.votedFor} # {})
       /\ ~(a.role = Leader /\
              {e[2] : e \in {f \in leaderOfTerm : f[1] = a.currentTerm}} \ {i} # {})
  <2>1. /\ ~MembershipChanges /\ IInv' /\ Explains(g)' /\ votesByTerm \subseteq votesByTerm'
        /\ leaderOfTerm \subseteq leaderOfTerm' /\ i \in Server /\ a = node'[i]
    BY <1>3 DEF OneEvent
  <2> QED BY ONLY <2>1, NoneBesides
<1>14. \A k \in ToValidate(base, a) :
         <<k, TermAt(a, k)>> \in DOMAIN canonical =>
           canonical[<<k, TermAt(a, k)>>] = w.hashes[k]
  <2>1. Len(v) \in Nat /\ a.snapshotIndex \in Nat
    BY <1>3, StepReads DEF OneEvent
  <2>2. \A k \in ToValidate(base, a) : k \in a.snapshotIndex + 1 .. Len(v)
    BY <1>5, <2>1
  <2> QED BY <1>1, <1>3, <1>4, <2>2, PrefixesAgree
<1>15. ~(a.role = Leader /\ LacksCommitted(w, a))
  BY <1>1, <1>3, <1>4, LeaderHasAll
<1>16. \A k \in News(w, a) \cap DOMAIN records :
         records[k].term = TermAt(a, k) /\ records[k].cmd = CommandAt(a, k)
  <2> SUFFICES ASSUME NEW k \in News(w, a), k \in DOMAIN records
               PROVE  records[k].term = TermAt(a, k) /\ records[k].cmd = CommandAt(a, k)
    OBVIOUS
  <2>1. \A r : RecordKept(g, k, r) => r.term = TermAt(a, k) /\ r.cmd = CommandAt(a, k)
    <3>1. /\ IInv /\ IInv' /\ Several /\ i \in Server /\ OneEvent(h, g, i) /\ WatchExplained(h)
          /\ a = node'[i] /\ v = g.whole[i] /\ Validated(w, v, a.snapshotIndex)
          /\ w.commitSeen \in Nat /\ k \in News(w, a)
      BY <1>1, <1>3, <1>4, <1>8
    <3> QED BY ONLY <3>1, NewsKept
  <2>2. k \in Nat \ {0} /\ RecordKept(h, k, records[k])
    BY <1>1 DEF RecordsKept
  <2>3. h \in History /\ g \in History /\ Follows(h, g)
    BY <1>1, EventFacts
  <2>4. RecordKept(g, k, records[k])
    BY <2>2, <2>3, RecordStays
  <2> QED BY <2>1, <2>4
<1>17. Report(i, n, a, installed, D, open, base, w) = {}
  BY ONLY <1>4, <1>10, <1>11, <1>12, <1>13, <1>14, <1>15, <1>16, NothingReported
<1>18. alarms' = {}
  BY <1>1, <1>2, <1>17
<1> QED BY <1>6, <1>7, <1>9, <1>10, <1>18 DEF Untroubled, WatchExplained

-----------------------------------------------------------------------------
(* A step of the cluster *)

\* No other node than i moves, and what was observed may grow.
Alone(i) ==
  /\ \A p \in Server \ {i} : node'[p] = node[p]
  /\ leaderOfTerm \subseteq leaderOfTerm' /\ votesByTerm \subseteq votesByTerm'

\* Every step is an event of one node, or changes none.
LEMMA StepAlone ==
  ASSUME IInv, [Next]_vars
  PROVE  /\ committed \subseteq committed'
         /\ node' = node \/ \E i \in Server : Alone(i) /\ committed \subseteq committed'
<1>1. CASE \E i \in Server : Moves(i)
  BY <1>1 DEF Moves, Alone
<1>2. ASSUME NEW i \in Server, Crash(i)
      PROVE  committed \subseteq committed' /\ node' = node
  BY <1>2 DEF Crash
<1>3. ASSUME NEW i \in Server, Restart(i)
      PROVE  committed \subseteq committed' /\ Alone(i)
  <2>1. \E a : Save(i, a) /\ Observe(i, a, a)
    BY <1>3, Zenon DEF Restart
  <2> QED BY <2>1 DEF Save, Observe, Alone
<1>4. CASE UNCHANGED <<node, alive, committed>>
  BY <1>4
<1> QED BY <1>1, <1>2, <1>3, <1>4, StepShape

\* An event that changes no node leaves the oracle as it is, and right.
LEMMA StillQuiet ==
  ASSUME IInv, IInv', NEW h, NEW g, Explains(h), Explains(g)', Evolves(h, g), node' = node,
         committed \subseteq committed', UNCHANGED oracleVars, Untroubled(h)
  PROVE  Untroubled(g)'
<1>1. UNCHANGED <<canonical, records, fed, watch, alarms>>
  BY DEF oracleVars
<1>2. WatchExplained(h) /\ RecordsKept(records, h) /\ FedKept(fed, committed) /\ alarms = {}
  BY DEF Untroubled
<1>3. h \in History /\ g \in History /\ Follows(h, g)
  BY DEF Explains, Sound, Evolves
<1>4. \A p \in Server : g.whole[p] = h.whole[p]
  BY StillLog
<1>5. PrefixesSound(canonical, g)
  <2> SUFFICES ASSUME NEW k, NEW t, <<k, t>> \in DOMAIN canonical
               PROVE  /\ t \in g.terms /\ k \in 1 .. Len(g.led[t])
                      /\ canonical[<<k, t>>] = SubSeq(g.led[t], 1, k)
    BY DEF PrefixesSound
  <2>1. /\ t \in h.terms /\ k \in 1 .. Len(h.led[t])
        /\ canonical[<<k, t>>] = SubSeq(h.led[t], 1, k)
    BY <1>2 DEF WatchExplained, PrefixesSound
  <2>2. t \in g.terms
    BY <1>3, <2>1 DEF Follows
  <2>3. k \in 0 .. Len(h.led[t])
    BY <2>1
  <2>4. k \in 0 .. Len(g.led[t]) /\ SubSeq(h.led[t], 1, k) = SubSeq(g.led[t], 1, k)
    BY <1>3, <2>1, <2>3, LedBeginning
  <2>5. k \in 1 .. Len(g.led[t])
    BY <2>1, <2>4
  <2> QED BY <2>1, <2>2, <2>4, <2>5
<1>6. WatchExplained(g)'
  BY <1>1, <1>2, <1>4, <1>5 DEF WatchExplained
<1>7. RecordsKept(records, g)
  <2>1. PICK b \in Nat :
          /\ DOMAIN records \subseteq 1 .. b
          /\ \A k \in DOMAIN records : RecordKept(h, k, records[k])
    BY <1>2 DEF RecordsKept
  <2>2. ASSUME NEW k \in DOMAIN records PROVE RecordKept(g, k, records[k])
    <3>1. k \in Nat \ {0} /\ RecordKept(h, k, records[k])
      BY <2>1
    <3> QED BY <1>3, <3>1, RecordStays
  <2> QED BY <2>1, <2>2 DEF RecordsKept
<1>8. FedKept(fed, committed')
  BY <1>2 DEF FedKept
<1> QED BY <1>1, <1>2, <1>6, <1>7, <1>8 DEF Untroubled

\* A message that makes a node install a snapshot takes it further than its commit index, and
\* it does not lead then.
LEMMA InstalledFurther ==
  ASSUME IInv, ~MembershipChanges, NEW h, Explains(h), NEW m \in msgs, m.dst \in Server,
         Receive(m.dst, m), Installs(node[m.dst], m)
  PROVE  Installed(m.dst, TRUE)
<1> DEFINE i == m.dst
           n == node[i]
           r == Recognise(n, m)
           f == Raised(h, i, r.currentTerm)
           lii == m.lastIncludedIndex
           a == InstallState(i, r, m)
           b == ApplyCommitted(i, a)
<1>1. HandleInstallSnapshot(i, m) /\ m.type = "InstallSnapshot"
  <2>1. m.type = "InstallSnapshot"
    BY DEF Installs
  <2> QED BY <2>1 DEF Receive, HandlePreVote, HandlePreVoteResp, HandleRequestVote,
             HandleRequestVoteResp, HandleAppendEntries, HandleAppendEntriesResp,
             HandleInstallSnapshotResp, HandleMemberRequest
<1>2. m \in InstallSnapshot /\ m \in NodeMessage
  BY <1>1, MessageOfType DEF IInv, MessageInv, MessagesTyped
<1>3. lii \in Nat
  BY <1>2 DEF InstallSnapshot
<1>4. FromLeader(m) /\ MessageSound(h, m)
  BY <1>1 DEF Explains, MessagesExplained
<1>5. ~Stale(n, m) /\ lii > n.commitIndex /\ TermAt(n, lii) # m.lastIncludedTerm
  BY DEF Installs
<1>6. /\ Sane(r) /\ KeepsLog(n, r) /\ r.currentTerm = m.term /\ r.role \in {Follower, Leader}
      /\ Carried(h, f, i, n, r) /\ Rooted(f, i, r)
  BY <1>2, <1>4, <1>5, Recognised
<1>7. SnapshotSound(f, m)
  <2>1. f \in History /\ Follows(h, f) /\ h \in History
    BY <1>6 DEF Carried, Rooted, Sound, Explains
  <2> HIDE DEF f
  <2> QED BY <1>2, <1>4, <2>1, MessageStays DEF MessageSound
<1>8. r.commitIndex = n.commitIndex /\ TermAt(r, lii) = TermAt(n, lii)
  <2> HIDE DEF r, lii
  <2> QED BY <1>6 DEF KeepsLog, SameLog, TermAt, HasIndex, LastIndex
<1>9. \E out : Post(i, a, out)
  <2>1. lii > r.commitIndex /\ TermAt(r, lii) # m.lastIncludedTerm
    BY <1>5, <1>8
  <2>2. ~(lii <= r.commitIndex)
    <3>1. r.commitIndex \in Nat
      BY <1>6 DEF Sane, NodeState
    <3> QED BY <1>3, <2>1, <3>1
  <2> QED BY <1>1, <1>5, <2>1, <2>2, Zenon DEF HandleInstallSnapshot
<1>10. /\ a.snapshotIndex = lii /\ a.role # Leader
       /\ \E g : Carried(f, g, i, r, a)
  <2> HIDE DEF f, r
  <2> QED BY <1>2, <1>5, <1>6, <1>7, <1>8, InstallCarries
<1>11. PICK g : Carried(f, g, i, r, a)
  BY <1>10
<1>12. node' = [node EXCEPT ![i] = [b EXCEPT !.dirty = FALSE]]
  <2> HIDE DEF a
  <2>1. \E x \in {a} : \E y \in {ApplyCommitted(i, x)} : Save(i, y)
    BY <1>9, Zenon DEF Post, Finish
  <2> QED BY <2>1 DEF Save, b
<1> HIDE DEF a, f, r
<1>13. SameOffice(a, b) /\ a.snapshotIndex <= b.snapshotIndex /\ b \in NodeState
  <2>1. Sound(g) /\ Sane(a) /\ NodeSound(g, i, a) /\ Compacted(a)
    BY <1>11 DEF Carried, Rooted
  <2>2. SameOffice(a, b) /\ a.snapshotIndex <= b.snapshotIndex
    BY <2>1, ApplyKeeps
  <2>3. b \in NodeState
    BY <2>1, ApplyCommittedFacts DEF Sane
  <2> QED BY <2>2, <2>3
<1> HIDE DEF b
<1>14. node'[i].snapshotIndex = b.snapshotIndex /\ node'[i].role = b.role
  <2>1. node'[i] = [b EXCEPT !.dirty = FALSE]
    BY <1>12 DEF IInv, StateInv, StateTyped
  <2>2. /\ [b EXCEPT !.dirty = FALSE].snapshotIndex = b.snapshotIndex
        /\ [b EXCEPT !.dirty = FALSE].role = b.role
    BY <1>13 DEF NodeState
  <2> QED BY <2>1, <2>2
<1>15. b.role # Leader
  BY <1>10, <1>13 DEF SameOffice
<1>16. b.snapshotIndex > n.commitIndex
  <2>1. n.commitIndex \in Nat
    BY DEF IInv, StateInv, StateTyped, NodeState
  <2>2. b.snapshotIndex \in Nat
    BY <1>13 DEF NodeState
  <2> QED BY <1>3, <1>5, <1>10, <1>13, <2>1, <2>2
<1> QED BY <1>14, <1>15, <1>16 DEF Installed

\* The oracle looks at the node of the event.
LEMMA ShownQuiet ==
  ASSUME IInv, IInv', ~MembershipChanges, Several, NEW h, NEW g, Explains(h), Explains(g)',
         Evolves(h, g), Untroubled(h), committed \subseteq committed', NEW i \in Server, Alone(i),
         NEW installed \in BOOLEAN, node' # node => Installed(i, installed), Shown(installed)
  PROVE  Untroubled(g)'
<1>1. CASE node' = node
  BY <1>1, StillQuiet DEF Shown
<1>2. CASE node' # node
  <2>1. PICK j \in Server : node'[j] # node[j] /\ Look(j, node[j], node'[j], installed)
    BY <1>2 DEF Shown
  <2>2. j = i
    BY <2>1 DEF Alone
  <2>3. Look(i, node[i], node'[i], installed)
    BY <2>1, <2>2
  <2>4. OneEvent(h, g, i) /\ Installed(i, installed)
    BY <1>2 DEF OneEvent, Alone
  <2> QED BY <2>3, <2>4, LookQuiet
<1> QED BY <1>1, <1>2

\* Every step of the cluster that the oracle watches is a step of the cluster.
LEMMA ObservedSteps == ObservedNext => Next
  BY Zenon DEF ObservedNext, Next

\* No step makes the oracle report anything or miss anything.
LEMMA ObservedQuiet ==
  ASSUME ~MembershipChanges, Several, IInv, OracleInv, [ObservedNext]_<<vars, oracleVars>>
  PROVE  IInv' /\ OracleInv'
<1>1. [Next]_vars
  BY ObservedSteps
<1>2. IInv'
  BY <1>1, NextInv
<1>3. PICK h \in History : Explains(h) /\ Untroubled(h)
  BY DEF OracleInv
<1>4. PICK g \in History : Explains(g)' /\ Evolves(h, g)
  BY <1>1, <1>3, NextLog DEF GoesOn
<1>5. /\ committed \subseteq committed'
      /\ node' = node \/ \E i \in Server : Alone(i) /\ committed \subseteq committed'
  BY <1>1, StepAlone
<1>6. CASE UNCHANGED <<vars, oracleVars>>
  <2>1. node' = node /\ UNCHANGED oracleVars
    BY <1>6 DEF vars
  <2>2. Untroubled(g)'
    BY <1>2, <1>3, <1>4, <1>5, <2>1, StillQuiet
  <2> QED BY <1>2, <1>4, <2>2 DEF OracleInv
<1>7. ASSUME NEW m \in msgs, Receive(m.dst, m), Shown(Installs(node[m.dst], m))
      PROVE  Untroubled(g)'
  <2> DEFINE i == m.dst
             installed == Installs(node[i], m)
  <2>1. i \in Server /\ Alone(i)
    BY <1>7, ReceiveMoves DEF Moves, Alone
  <2>2. installed \in BOOLEAN
    BY DEF Installs
  <2>3. Installed(i, installed)
    <3>1. CASE installed
      <4>1. Installed(i, TRUE)
        BY <1>3, <1>7, <2>1, <3>1, InstalledFurther
      <4> QED BY <4>1 DEF Installed
    <3>2. CASE ~installed
      BY <3>2 DEF Installed
    <3> QED BY <3>1, <3>2
  <2> HIDE DEF i, installed
  <2>4. Shown(installed)
    BY <1>7 DEF i, installed
  <2> QED BY <1>2, <1>3, <1>4, <1>5, <2>1, <2>2, <2>3, <2>4, ShownQuiet
<1>8. ASSUME Shown(FALSE)
      PROVE  Untroubled(g)'
  <2>1. CASE node' = node
    <3>1. UNCHANGED oracleVars
      BY <1>8, <2>1 DEF Shown
    <3> QED BY <1>2, <1>3, <1>4, <1>5, <2>1, <3>1, StillQuiet
  <2>2. CASE node' # node
    <3>1. PICK i \in Server : Alone(i)
      BY <1>5, <2>2
    <3>2. Installed(i, FALSE)
      BY DEF Installed
    <3> QED BY <1>2, <1>3, <1>4, <1>5, <1>8, <3>1, <3>2, ShownQuiet
  <2> QED BY <2>1, <2>2
<1>9. ObservedNext => \/ \E m \in msgs : Receive(m.dst, m) /\ Shown(Installs(node[m.dst], m))
                      \/ Shown(FALSE)
  BY Zenon DEF ObservedNext
<1>10. CASE Untroubled(g)'
  BY <1>2, <1>4, <1>10 DEF OracleInv
<1> QED BY <1>6, <1>7, <1>8, <1>9, <1>10

\* At the beginning the oracle knows of nothing, and there is nothing to be known.
LEMMA OracleInit == ~MembershipChanges /\ Init /\ InitOracle => IInv /\ OracleInv
<1> SUFFICES ASSUME ~MembershipChanges, Init, InitOracle PROVE IInv /\ OracleInv
  OBVIOUS
<1>1. IInv /\ LInv
  BY InitInv, InitLog
<1>2. PICK h \in History : Explains(h)
  BY <1>1 DEF LInv
<1>3. ASSUME NEW i \in Server
      PROVE  /\ h.whole[i] = <<>> /\ node[i].snapshotIndex = 0 /\ node[i].currentTerm \in Nat
             /\ watch[i] = [hashes |-> [k \in {0} |-> <<>>], checked |-> 0,
                            snapshotAt |-> 0, commitSeen |-> 0, maxTerm |-> 0]
  <2>1. node[i].log = <<>> /\ node[i].snapshotIndex = 0
    BY DEF Init, InitNode
  <2>2. /\ h.whole[i] \in Seq(LogEntry) /\ LastIndex(node[i]) = Len(h.whole[i])
        /\ node[i].currentTerm \in Nat
    BY <1>1, <1>2, NodeReads
  <2>3. Len(h.whole[i]) = 0
    BY <2>1, <2>2 DEF LastIndex
  <2>4. h.whole[i] = <<>>
    BY <2>2, <2>3
  <2> QED BY <2>1, <2>2, <2>4 DEF InitOracle
<1>4. Prefixes(<<>>, 0) = [k \in {0} |-> <<>>]
  <2>1. 0 .. Len(<<>>) = {0}
    OBVIOUS
  <2>2. SubSeq(<<>>, 1, 0) = <<>>
    OBVIOUS
  <2> QED BY <2>1, <2>2 DEF Prefixes
<1>5. \A i \in Server : WatchSound(watch[i], h.whole[i], node[i])
  <2> SUFFICES ASSUME NEW i \in Server PROVE WatchSound(watch[i], h.whole[i], node[i])
    OBVIOUS
  <2>1. /\ watch[i].hashes = Prefixes(<<>>, 0) /\ watch[i].checked = 0
        /\ watch[i].snapshotAt = 0 /\ watch[i].commitSeen = 0 /\ watch[i].maxTerm = 0
        /\ DOMAIN watch[i] = {"hashes", "checked", "snapshotAt", "commitSeen", "maxTerm"}
    BY <1>3, <1>4
  <2>2. Len(<<>>) = 0
    OBVIOUS
  <2> QED BY <1>3, <2>1, <2>2 DEF WatchSound, Validated, Book
<1>6. canonical = <<>> /\ records = <<>> /\ fed = <<>> /\ alarms = {} /\ DOMAIN watch = Server
  BY DEF InitOracle
<1>7. DOMAIN <<>> = {}
  OBVIOUS
<1>8. PrefixesSound(canonical, h) /\ RecordsKept(records, h) /\ FedKept(fed, committed)
  <2>1. 0 \in Nat
    OBVIOUS
  <2> QED BY <1>6, <1>7, <2>1 DEF PrefixesSound, RecordsKept, FedKept
<1>9. \A i \in Server : Lists(canonical, h.whole[i])
  <2>1. 1 .. Len(<<>>) = {}
    OBVIOUS
  <2> QED BY <1>3, <2>1 DEF Lists
<1>10. Untroubled(h)
  BY <1>5, <1>6, <1>8, <1>9 DEF Untroubled, WatchExplained
<1> QED BY <1>1, <1>2, <1>10 DEF OracleInv

-----------------------------------------------------------------------------
(* What the invariant says *)

\* A beginning of a log and its next entry make a longer beginning.
LEMMA NextBeginning ==
  ASSUME NEW S, NEW u \in Seq(S), NEW k \in 1 .. Len(u)
  PROVE  SubSeq(u, 1, k) = Append(SubSeq(u, 1, k - 1), u[k])
<1>1. k \in 0 .. Len(u) /\ k - 1 \in 0 .. Len(u) /\ u[k] \in S /\ k \in Nat /\ k - 1 \in Nat
  OBVIOUS
<1> DEFINE p == SubSeq(u, 1, k)
           q == SubSeq(u, 1, k - 1)
           r == Append(q, u[k])
<1>2. /\ p \in Seq(S) /\ Len(p) = k /\ \A j \in 1 .. k : p[j] = u[j]
      /\ q \in Seq(S) /\ Len(q) = k - 1 /\ \A j \in 1 .. k - 1 : q[j] = u[j]
  BY <1>1, Beginning1
<1> HIDE DEF p, q
<1>3. r \in Seq(S) /\ Len(r) = k /\ \A j \in 1 .. k : r[j] = u[j]
  BY <1>1, <1>2
<1> HIDE DEF r
<1>4. p = r
  BY <1>2, <1>3, SeqEqual
<1> QED BY <1>4 DEF p, q, r

\* What the oracle has of a node's log is the log.
LEMMA OracleHas ==
  ASSUME IInv, NEW h, Explains(h), Untroubled(h), NEW i \in Server
  PROVE  LET n == node[i]
             u == h.whole[i]
         IN /\ n \in NodeState /\ u \in Seq(LogEntry) /\ Keeping(n, u) /\ Known(h, u)
            /\ LastIndex(n) = Len(u) /\ Len(u) \in Nat
            /\ n.snapshotIndex \in Nat /\ n.snapshotIndex <= Len(u)
            /\ watch[i].checked = Len(u)
            /\ DOMAIN watch[i].hashes = n.snapshotIndex .. Len(u)
            /\ \A k \in n.snapshotIndex .. Len(u) : watch[i].hashes[k] = SubSeq(u, 1, k)
<1> DEFINE n == node[i]
           u == h.whole[i]
<1>1. /\ n \in NodeState /\ u \in Seq(LogEntry) /\ Keeping(n, u) /\ Known(h, u)
      /\ LastIndex(n) = Len(u) /\ Len(u) \in Nat
      /\ n.snapshotIndex \in Nat /\ n.lastApplied \in Nat
  BY NodeReads
<1>2. n.snapshotIndex <= Len(u)
  BY <1>1 DEF Keeping
<1>3. watch[i].hashes = Prefixes(u, n.snapshotIndex) /\ watch[i].checked = Len(u)
  BY DEF Untroubled, WatchExplained, WatchSound, Validated
<1>4. /\ DOMAIN watch[i].hashes = n.snapshotIndex .. Len(u)
      /\ \A k \in n.snapshotIndex .. Len(u) : watch[i].hashes[k] = SubSeq(u, 1, k)
  BY <1>3 DEF Prefixes
<1> QED BY <1>1, <1>2, <1>3, <1>4

\* The invariant makes the oracle see all there is.
LEMMA InvSees == IInv /\ OracleInv => OracleSees
<1> SUFFICES ASSUME IInv, OracleInv, NEW i \in Server
             PROVE  LET n == node[i]
                        h == watch[i].hashes
                    IN /\ watch[i].checked = LastIndex(n)
                       /\ DOMAIN h = n.snapshotIndex .. LastIndex(n)
                       /\ \A k \in DOMAIN h :
                            /\ Len(h[k]) = k
                            /\ k > n.snapshotIndex =>
                                 h[k] = Append(h[k - 1], n.log[k - n.snapshotIndex])
                       /\ n.snapshotIndex > 0 =>
                            h[n.snapshotIndex][n.snapshotIndex].term = n.snapshotTerm
                       /\ \A k \in 1 .. n.snapshotIndex :
                            h[n.snapshotIndex][k].cmd = n.snapshotData[k]
  BY Zenon DEF OracleSees
<1>1. PICK g \in History : Explains(g) /\ Untroubled(g)
  BY DEF OracleInv
<1> DEFINE n == node[i]
           u == g.whole[i]
           s == n.snapshotIndex
           f == watch[i].hashes
<1>2. /\ n \in NodeState /\ u \in Seq(LogEntry) /\ Keeping(n, u)
      /\ LastIndex(n) = Len(u) /\ Len(u) \in Nat /\ s \in Nat /\ s <= Len(u)
      /\ watch[i].checked = Len(u) /\ DOMAIN f = s .. Len(u)
      /\ \A k \in s .. Len(u) : f[k] = SubSeq(u, 1, k)
  BY <1>1, OracleHas
<1> HIDE DEF n, u, f
<1>3. ASSUME NEW k \in s .. Len(u)
      PROVE  /\ Len(f[k]) = k /\ \A j \in 1 .. k : f[k][j] = u[j]
             /\ k > s => f[k] = Append(f[k - 1], n.log[k - s])
  <2>1. k \in 0 .. Len(u) /\ k \in Nat
    BY <1>2
  <2>2. Len(f[k]) = k /\ \A j \in 1 .. k : f[k][j] = u[j]
    BY <1>2, <2>1, Beginning1
  <2>3. ASSUME k > s PROVE f[k] = Append(f[k - 1], n.log[k - s])
    <3>1. k \in 1 .. Len(u) /\ k - 1 \in s .. Len(u) /\ k \in s + 1 .. Len(u)
      BY <1>2, <2>1, <2>3
    <3>2. n.log[k - s] = u[k]
      BY <1>2, <3>1 DEF Keeping
    <3>3. SubSeq(u, 1, k) = Append(SubSeq(u, 1, k - 1), u[k])
      BY <1>2, <3>1, NextBeginning
    <3> QED BY <1>2, <3>1, <3>2, <3>3
  <2> QED BY <2>2, <2>3
<1>4. s \in s .. Len(u)
  BY <1>2
<1>5. s > 0 => f[s][s].term = n.snapshotTerm
  <2> SUFFICES ASSUME s > 0 PROVE f[s][s].term = n.snapshotTerm
    OBVIOUS
  <2>1. s \in 1 .. s /\ s # 0
    BY <1>2
  <2>2. f[s][s] = u[s]
    BY <1>3, <1>4, <2>1
  <2> QED BY <1>2, <2>1, <2>2 DEF Keeping, TermOf
<1>6. \A k \in 1 .. s : f[s][k].cmd = n.snapshotData[k]
  <2>1. n.snapshotData = Commands(u, s)
    BY <1>2 DEF Keeping
  <2>2. \A k \in 1 .. s : n.snapshotData[k] = u[k].cmd
    BY <2>1 DEF Commands
  <2>3. \A k \in 1 .. s : f[s][k] = u[k]
    BY <1>3, <1>4
  <2> QED BY <2>2, <2>3
<1> HIDE DEF s
<1>7. \A k \in DOMAIN f :
        /\ Len(f[k]) = k
        /\ k > s => f[k] = Append(f[k - 1], n.log[k - s])
  BY <1>2, <1>3
<1> QED BY <1>2, <1>5, <1>6, <1>7 DEF n, s, f

\* And nothing to report, then or at the end.
LEMMA InvSilent == IInv /\ OracleInv => OracleSilent
<1> SUFFICES ASSUME IInv, OracleInv PROVE OracleSilent
  OBVIOUS
<1>1. PICK g \in History : Explains(g) /\ Untroubled(g)
  BY DEF OracleInv
<1>2. alarms = {}
  BY <1>1 DEF Untroubled
<1>3. ASSUME NEW i \in Server, NEW j \in Server,
             NEW c \in DOMAIN watch[i].hashes \cap DOMAIN watch[j].hashes,
             TermAt(node[i], c) = TermAt(node[j], c)
      PROVE  watch[i].hashes[c] = watch[j].hashes[c]
  <2> DEFINE u == g.whole[i]
             v == g.whole[j]
             s == node[i].snapshotIndex
             t == node[j].snapshotIndex
  <2>1. /\ node[i] \in NodeState /\ u \in Seq(LogEntry) /\ Keeping(node[i], u) /\ Known(g, u)
        /\ Len(u) \in Nat /\ s \in Nat /\ DOMAIN watch[i].hashes = s .. Len(u)
        /\ \A k \in s .. Len(u) : watch[i].hashes[k] = SubSeq(u, 1, k)
    BY <1>1, OracleHas
  <2>2. /\ node[j] \in NodeState /\ v \in Seq(LogEntry) /\ Keeping(node[j], v) /\ Known(g, v)
        /\ Len(v) \in Nat /\ t \in Nat /\ DOMAIN watch[j].hashes = t .. Len(v)
        /\ \A k \in t .. Len(v) : watch[j].hashes[k] = SubSeq(v, 1, k)
    BY <1>1, OracleHas
  <2> HIDE DEF u, v
  <2>3. c \in s .. Len(u) /\ c \in t .. Len(v)
    BY <2>1, <2>2
  <2>4. c \in Nat /\ c <= Len(u) /\ c <= Len(v)
    BY <2>1, <2>2, <2>3
  <2>5. TermOf(u, c) = TermOf(v, c)
    <3>1. TermAt(node[i], c) = TermOf(u, c)
      BY <2>1, <2>3, KeepingReads
    <3>2. TermAt(node[j], c) = TermOf(v, c)
      BY <2>2, <2>3, KeepingReads
    <3> QED BY <1>3, <3>1, <3>2
  <2>6. c # 0 => Share(u, v, c)
    <3> SUFFICES ASSUME c # 0 PROVE Share(u, v, c)
      OBVIOUS
    <3>1. c \in 1 .. Len(u) /\ u[c].term = v[c].term
      BY <2>1, <2>4, <2>5 DEF TermOf
    <3> QED BY <2>1, <2>2, <2>4, <3>1, KnownMeet
  <2>7. SubSeq(u, 1, c) = SubSeq(v, 1, c)
    BY <2>1, <2>2, <2>4, <2>6, SharedBeginning
  <2> QED BY <2>1, <2>2, <2>3, <2>7
<1>4. Disagreements = {}
  <2> SUFFICES ASSUME NEW p \in Disagreements PROVE FALSE
    OBVIOUS
  <2> DEFINE i == p[1]
             j == p[2]
             shared == DOMAIN watch[i].hashes \cap DOMAIN watch[j].hashes
             c == Largest(shared)
  <2>1. /\ p \in Server \X Server /\ shared # {}
        /\ TermAt(node[i], c) = TermAt(node[j], c)
        /\ watch[i].hashes[c] # watch[j].hashes[c]
    BY Zenon DEF Disagreements
  <2>2. i \in Server /\ j \in Server
    BY <2>1
  <2>3. c \in shared
    <3> DEFINE b == Len(g.whole[i])
    <3>1. b \in Nat /\ DOMAIN watch[i].hashes = node[i].snapshotIndex .. b
          /\ node[i].snapshotIndex \in Nat
      BY <1>1, <2>2, OracleHas
    <3> HIDE DEF b
    <3>2. shared \in SUBSET Nat /\ \A y \in shared : y <= b
      BY <3>1
    <3> HIDE DEF shared
    <3> QED BY <2>1, <3>1, <3>2, LargestType
  <2>4. c \in DOMAIN watch[i].hashes \cap DOMAIN watch[j].hashes
    BY <2>3
  <2> HIDE DEF i, j, shared, c
  <2> QED BY <1>3, <2>1, <2>2, <2>4
<1> QED BY <1>2, <1>4 DEF OracleSilent

-----------------------------------------------------------------------------
(* The theorems *)

\* The oracle's incremental bookkeeping never goes blind: after every event it has, of every
\* node, the prefixes of all of the log that is left, down to the snapshot point, however
\* the log was truncated, compacted or replaced (invariants.py, observe).
THEOREM OracleKeepsUp ==
  ASSUME ~MembershipChanges, Several
  PROVE  SpecOracle => []OracleSees
<1>1. Init /\ InitOracle => IInv /\ OracleInv
  BY OracleInit
<1>2. IInv /\ OracleInv /\ [ObservedNext]_<<vars, oracleVars>> => IInv' /\ OracleInv'
  BY ObservedQuiet
<1>3. IInv /\ OracleInv => OracleSees
  BY InvSees
<1> QED BY <1>1, <1>2, <1>3, PTL DEF SpecOracle

\* The oracle never cries wolf: whatever the cluster does, none of its checks fails, after an
\* event or in the final sweep, so that a violation it reports is one of the code.
THEOREM OracleNeverAlarms ==
  ASSUME ~MembershipChanges, Several
  PROVE  SpecOracle => []OracleSilent
<1>1. Init /\ InitOracle => IInv /\ OracleInv
  BY OracleInit
<1>2. IInv /\ OracleInv /\ [ObservedNext]_<<vars, oracleVars>> => IInv' /\ OracleInv'
  BY ObservedQuiet
<1>3. IInv /\ OracleInv => OracleSilent
  BY InvSilent
<1> QED BY <1>1, <1>2, <1>3, PTL DEF SpecOracle
=============================================================================
