------------------------------ MODULE MCOracle ------------------------------
(* A cluster with a leader (MCRaft) under the eyes of the oracle, which    *)
(* has seen what the servers have written so far.                          *)
EXTENDS MCRaft, Oracle

\* Election timeouts are to come, or crashes.
InitObserved ==
  /\ Led
  /\ \/ timeouts = 0 /\ crashes = MaxCrashes
     \/ timeouts = MaxTimeouts /\ crashes = 0
  /\ canonical = [p \in UNION {{<<k, TermAt(node[i], k)>> : k \in 1 .. LastIndex(node[i])}
                                : i \in Server} |->
                    LET i == CHOOSE j \in Server : TermAt(node[j], p[1]) = p[2]
                    IN SubSeq(node[i].log, 1, p[1])]
  /\ records = <<>> /\ fed = <<>>
  /\ watch = [i \in Server |->
       [hashes |-> [k \in 0 .. LastIndex(node[i]) |-> SubSeq(node[i].log, 1, k)],
        checked |-> LastIndex(node[i]), snapshotAt |-> 0, commitSeen |-> 0,
        maxTerm |-> node[i].currentTerm]]
  /\ alarms = {}

SpecObserved == InitObserved /\ [][ObservedNext]_<<vars, oracleVars>>
=============================================================================
