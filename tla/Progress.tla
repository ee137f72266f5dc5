------------------------------ MODULE Progress ------------------------------
(***************************************************************************)
(* What a cluster with a leader gets done once the network is only lossy:  *)
(* the liveness of replication, recovery and client requests.              *)
(*                                                                         *)
(* Raft lets every message arrive any number of times, at any time.  No    *)
(* protocol makes progress under an adversary that delivers outdated       *)
(* rejections for ever; the network of raftlab/sim/network.py delivers     *)
(* each of the finitely many messages at most twice and within its largest *)
(* latency.  So here MaxTroubles bounds the deliveries of messages that    *)
(* are out of date and the losses: unlike in Raft a message that is lost   *)
(* has to be sent again.  No election takes place: that one succeeds in    *)
(* the end is a matter of random timeouts, which are not modelled.         *)
(***************************************************************************)
EXTENDS Raft

CONSTANT MaxTroubles   \* bound: outdated messages delivered and messages lost

ASSUME ProgressAssumption == MaxTroubles \in Nat

VARIABLE troubles      \* outdated messages delivered and messages lost so far

progressVars == <<vars, troubles>>

Probe(i, p) == MakeAppend(i, node[i], p)

\* m is what its sender would say again now: what a leader has for its peer, an
\* acknowledgement, or a rejection of the leader's current probe.
Timely(m) ==
  CASE m.type \in {"AppendEntries", "InstallSnapshot"} ->
         node[m.src].role = Leader /\ m = Probe(m.src, m.dst)
    [] m.type = "AppendEntriesResp" ->
         \/ m.success
         \/ LET probe == Probe(m.dst, m.src)
            IN /\ probe.type = "AppendEntries"
               /\ probe.prevLogIndex = m.repliesTo
               /\ ~PrevMatches(node[m.src], probe)
    [] OTHER -> TRUE

Trouble == troubles < MaxTroubles /\ troubles' = troubles + 1

\* Network.schedule drops a message, or a partition or a crash does.
Lose(m) ==
  /\ Trouble
  /\ msgs' = msgs \ {m}
  /\ UNCHANGED <<node, disk, alive, clientSeq, operatorSeq, crashes, timeouts,
                 leaderOfTerm, votesByTerm, committed>>

Late(m) == ~Timely(m) /\ Receive(m.dst, m) /\ Trouble

\* The timers, the network and the clients at work.
Helpful ==
  /\ \/ \E i \in Server : Heartbeat(i) \/ Restart(i)
     \/ \E m \in msgs : Timely(m) /\ Receive(m.dst, m)
     \/ \E c \in Client, i \in Server, s \in 1 .. MaxSeq : ClientRequest(i, c, s)
  /\ UNCHANGED troubles

ProgressNext ==
  \/ Helpful
  \/ \E i \in Server : Crash(i) /\ UNCHANGED troubles
  \/ \E m \in msgs : Lose(m) \/ Late(m)

-----------------------------------------------------------------------------
(* Fairness.  Timers go on firing (ev_tick), a crash ends (ev_restart), a   *)
(* client that gets no answer asks again until it finds the leader          *)
(* (ev_ctimeout, on_reply), and the network delivers.  It is enough that    *)
(* the system does not rest for ever while one of these could still change  *)
(* something.                                                               *)

Fairness == WF_progressVars(Helpful)

-----------------------------------------------------------------------------
(* Properties                                                              *)

Leads(i) == alive[i] /\ node[i].role = Leader

\* As long as a leader leads, time and again all of its log has been applied by all
\* of its members: whatever was lost, however far a member's log has diverged or
\* lags behind the leader's snapshot, and although only one batch at a time is under
\* way to each peer.
Replicates ==
  \A i \in Server :
    []<>(~Leads(i) \/ \A p \in node[i].members : node[p].lastApplied >= LastIndex(node[i]))

\* As long as the cluster has a leader, time and again each client has the answer
\* to its last operation.
Served ==
  \A c \in Client :
    []<>(\/ clientSeq[c] = 0 \/ RepliesTo(c, clientSeq[c]) # {}
         \/ \A i \in Server : ~Leads(i))
=============================================================================
