------------------------------- MODULE Oracle -------------------------------
(***************************************************************************)
(* The safety oracle (raftlab/check/invariants.py) watching the cluster.   *)
(*                                                                         *)
(* It looks at one node after each of its events and validates only what   *)
(* is new: it keeps a hash of every prefix of the node's log that is still *)
(* there, drops those that a truncation or a compaction takes away, and    *)
(* anchors a node that has installed a snapshot at the hash that the       *)
(* snapshot point had elsewhere.  A prefix hash is modelled by the prefix, *)
(* as if the 64 bits never collided.                                       *)
(*                                                                         *)
(* leader_of_term and votes_by_term are those of Raft; `committed' there   *)
(* is all that was ever committed, `records' what the oracle has of it.    *)
(***************************************************************************)
EXTENDS Raft

VARIABLES
  canonical,  \* canonical[index, term]: the prefix that ends there
  records,    \* SafetyChecker.committed
  fed,        \* SafetyChecker.applied
  watch,      \* what is kept of each node
  alarms      \* the kinds of the violations

oracleVars == <<canonical, records, fed, watch, alarms>>

InitOracle ==
  /\ canonical = <<>> /\ records = <<>> /\ fed = <<>>
  /\ watch = [i \in Server |-> [hashes |-> [k \in {0} |-> <<>>], checked |-> 0,
                                snapshotAt |-> 0, commitSeen |-> 0, maxTerm |-> 0]]
  /\ alarms = {}

-----------------------------------------------------------------------------
(* What the event that turned n into a has left for the oracle             *)

\* note_truncation: the entries of n that have been deleted or replaced, when a
\* snapshot is installed those beyond it.
Deleted(n, a, installed) ==
  {k \in n.snapshotIndex + 1 .. LastIndex(n) :
     IF installed THEN k > a.snapshotIndex
     ELSE k >= a.snapshotIndex /\ TermAt(a, k) # TermAt(n, k)}

\* Whether message m makes n install a snapshot: it is not stale, covers more than is
\* committed, and n does not hold its last entry.
Installs(n, m) ==
  /\ m.type = "InstallSnapshot"
  /\ ~Stale(n, m)
  /\ m.lastIncludedIndex > n.commitIndex
  /\ TermAt(n, m.lastIncludedIndex) # m.lastIncludedTerm

\* applied_trace: what the state machine has been fed, not what a snapshot holds.
Trace(n, a, installed) ==
  IF installed THEN {} ELSE n.lastApplied + 1 .. a.lastApplied

\* A dictionary with the entries of f, and those of g under the keys that f has not.
Over(f, g) ==
  [k \in DOMAIN f \cup DOMAIN g |-> IF k \in DOMAIN f THEN f[k] ELSE g[k]]

Alarm(kind, raised) == IF raised THEN {kind} ELSE {}

-----------------------------------------------------------------------------
(* The prefixes of a log                                                   *)

Only(f, K) == [k \in K |-> f[k]]

\* Mutant: the prefixes go, the mark of what has been validated stays.
CutHashesOnly(w, deleted) ==
  [w EXCEPT !.hashes = Only(@, {k \in DOMAIN @ : \A d \in deleted : k < d})]

\* Whatever is at or above a deleted entry has to be validated again.
Cut(w, deleted) ==
  IF deleted = {} THEN w
  ELSE [w EXCEPT
          !.hashes = Only(@, {k \in DOMAIN @ : \A d \in deleted : k < d}),
          !.checked = Smaller(@, Smallest(deleted) - 1)]

\* Mutant: the prefixes of the log that the snapshot replaced are kept.
KeepOnInstall(w) == w

\* An installed snapshot replaces all that was known of the node.
ForgetOnInstall(w) == [w EXCEPT !.hashes = <<>>, !.checked = 0]

\* The snapshot point is an entry of some leader, whose prefix is known.
Anchor(w, a) ==
  LET point == <<a.snapshotIndex, a.snapshotTerm>>
  IN IF a.snapshotIndex <= w.checked \/ point \notin DOMAIN canonical THEN w
     ELSE [w EXCEPT !.hashes = Over([k \in {a.snapshotIndex} |-> canonical[point]], @),
                    !.checked = a.snapshotIndex]

UnknownPoint(w, a) ==
  /\ a.snapshotIndex > w.checked
  /\ <<a.snapshotIndex, a.snapshotTerm>> \notin DOMAIN canonical

\* What is compacted cannot be asked about again.
Prune(w, a) ==
  [w EXCEPT !.hashes = Only(@, {k \in DOMAIN @ : k >= a.snapshotIndex})]

\* The entries that are still to be validated, from where there is a prefix to start at.
ToValidate(w, a) ==
  LET from == Larger(w.checked, a.snapshotIndex)
  IN IF from \in DOMAIN w.hashes THEN from + 1 .. LastIndex(a) ELSE {}

Validate(w, a) ==
  LET from == Larger(w.checked, a.snapshotIndex)
      Prefix(k) == w.hashes[from] \o SubSeq(a.log, from + 1 - a.snapshotIndex,
                                            k - a.snapshotIndex)
  IN [w EXCEPT !.hashes = Over([k \in ToValidate(w, a) |-> Prefix(k)], @),
               !.checked = IF ToValidate(w, a) # {} THEN LastIndex(a)
                           ELSE IF w.checked < LastIndex(a) THEN from ELSE @]

-----------------------------------------------------------------------------
(* Leaders and commits                                                     *)

\* check_leader_completeness: the last entry committed in an earlier term is there.
LacksCommitted(w, a) ==
  LET earlier == {k \in DOMAIN records : records[k].committedIn < a.currentTerm}
      last == Largest({0} \cup earlier)
  IN /\ last > a.snapshotIndex
     /\ \/ LastIndex(a) < last
        \/ last \notin DOMAIN w.hashes
        \/ w.hashes[last] # records[last].hash

\* The entries whose commit is news from this node.
News(w, a) ==
  Larger(w.commitSeen, a.snapshotIndex) + 1 .. Smaller(a.commitIndex, LastIndex(a))

Record(w, a, k) ==
  [term |-> TermAt(a, k), cmd |-> CommandAt(a, k), hash |-> w.hashes[k],
   committedIn |-> a.currentTerm]

-----------------------------------------------------------------------------
\* What is kept of node i when its event, from n to a, has been looked at: base is what was
\* left of its log's prefixes, w what they are now.
Learn(i, n, a, installed, base, w) ==
  /\ watch' = [watch EXCEPT ![i] =
                 [w EXCEPT !.maxTerm = Larger(@, a.currentTerm),
                           !.snapshotAt = Larger(@, a.snapshotIndex),
                           !.commitSeen = IF a.commitIndex > @
                                          THEN Larger(@, Smaller(a.commitIndex, LastIndex(a)))
                                          ELSE @]]
  /\ canonical' = Over(canonical, [p \in {<<k, TermAt(a, k)>> : k \in ToValidate(base, a)}
                                     |-> w.hashes[p[1]]])
  /\ records' = Over(records, [k \in News(w, a) \cap DOMAIN w.hashes |-> Record(w, a, k)])
  /\ fed' = Over(fed, [k \in Trace(n, a, installed) |-> a.sm[k]])

\* The violations that are found: open is what was left before the snapshot was anchored.
Report(i, n, a, installed, deleted, open, base, w) ==
  LET Owners == {e[2] : e \in {f \in leaderOfTerm : f[1] = a.currentTerm}}
      Votes == {e[3] : e \in {f \in votesByTerm : f[1] = i /\ f[2] = a.currentTerm}}
  IN Alarm("TermRegression", a.currentTerm < w.maxTerm)
     \cup Alarm("VoteSafety", a.votedFor # Nil /\ Votes \ {a.votedFor} # {})
     \cup Alarm("CommitBeyondLog", a.commitIndex > LastIndex(a))
     \cup Alarm("SnapshotBeyondCommit", a.snapshotIndex > a.commitIndex)
     \cup Alarm("SnapshotRegression", a.snapshotIndex < w.snapshotAt)
     \cup Alarm("TruncatedCommitted", \E k \in deleted : k <= n.commitIndex)
     \cup Alarm("LeaderAppendOnly", deleted # {} /\ a.role = Leader)
     \cup Alarm("SnapshotUnknownPoint", UnknownPoint(open, a))
     \cup Alarm("LogMatching", \E k \in ToValidate(base, a) :
            /\ <<k, TermAt(a, k)>> \in DOMAIN canonical
            /\ canonical[<<k, TermAt(a, k)>>] # w.hashes[k])
     \cup Alarm("ElectionSafety", a.role = Leader /\ Owners \ {i} # {})
     \cup Alarm("LeaderCompleteness",
                a.role = Leader /\ Owners = {} /\ LacksCommitted(w, a))
     \cup Alarm("CommittedEntryChanged", \E k \in News(w, a) \cap DOMAIN records :
            records[k].term # TermAt(a, k) \/ records[k].cmd # CommandAt(a, k))
     \cup Alarm("StateMachineSafety",
                \E k \in Trace(n, a, installed) \cap DOMAIN fed : fed[k] # a.sm[k])

\* observe, after the event that turned n into a.
Look(i, n, a, installed) ==
  \E deleted \in {Deleted(n, a, installed)} :
  \E open \in {IF installed THEN ForgetOnInstall(Cut(watch[i], deleted))
               ELSE Cut(watch[i], deleted)} :
  \E base \in {Prune(Anchor(open, a), a)} :
  \E w \in {Validate(base, a)} :
     /\ Learn(i, n, a, installed, base, w)
     /\ alarms' = alarms \cup Report(i, n, a, installed, deleted, open, base, w)

\* Simulator.post shows the node of the event to the oracle, which learns nothing
\* from one that has not changed.
Shown(installed) ==
  IF node' = node THEN UNCHANGED oracleVars
  ELSE \E i \in Server : node'[i] # node[i] /\ Look(i, node[i], node'[i], installed)

ObservedNext ==
  \/ \E m \in msgs : Receive(m.dst, m) /\ Shown(Installs(node[m.dst], m))
  \/ /\ \/ \E i \in Server : Timeout(i) \/ Heartbeat(i) \/ MemberChange(i) \/ Crash(i) \/ Restart(i)
        \/ \E c \in Client : \/ ClientBegin(c)
                             \/ \E i \in Server, s \in 1 .. MaxSeq : ClientRequest(i, c, s)
     /\ Shown(FALSE)

\* The cluster and the oracle from the first event on.
SpecOracle == Init /\ InitOracle /\ [][ObservedNext]_<<vars, oracleVars>>

-----------------------------------------------------------------------------
(* Properties                                                              *)

\* The surviving logs that sweep finds in disagreement at the end of a run.
Disagreements ==
  {p \in Server \X Server :
     LET shared == DOMAIN watch[p[1]].hashes \cap DOMAIN watch[p[2]].hashes
         common == Largest(shared)
     IN /\ shared # {}
        /\ TermAt(node[p[1]], common) = TermAt(node[p[2]], common)
        /\ watch[p[1]].hashes[common] # watch[p[2]].hashes[common]}

\* The oracle never cries wolf: nothing that the cluster does, no truncation,
\* compaction, installed snapshot or restart, makes its incremental bookkeeping
\* report a violation, after an event or in the final sweep.
OracleSilent == alarms = {} /\ Disagreements = {}

\* Nor does it go blind: of every node it has the prefixes of all of the log that is
\* left, down to the snapshot point, with the commands that the node has applied.
OracleSees ==
  \A i \in Server :
    LET n == node[i]
        h == watch[i].hashes
    IN /\ watch[i].checked = LastIndex(n)
       /\ DOMAIN h = n.snapshotIndex .. LastIndex(n)
       /\ \A k \in DOMAIN h :
            /\ Len(h[k]) = k
            /\ k > n.snapshotIndex => h[k] = Append(h[k - 1], n.log[k - n.snapshotIndex])
       /\ n.snapshotIndex > 0 => h[n.snapshotIndex][n.snapshotIndex].term = n.snapshotTerm
       /\ \A k \in 1 .. n.snapshotIndex : h[n.snapshotIndex][k].cmd = n.snapshotData[k]
=============================================================================
