------------------------------ MODULE Service ------------------------------
(***************************************************************************)
(* The replicated key-value service as its clients see it: closed-loop     *)
(* clients (raftlab/sim/client.py) that retry, replicas that apply a       *)
(* common log to their stores, and the history that is recorded.           *)
(*                                                                         *)
(* What the replicas share is the log that module ReplicatedLog promises   *)
(* and Raft implements: it only grows, every replica applies it from the   *)
(* front, and one that restarts goes back to its snapshot.  Any replica    *)
(* may take a request for the log, as any may come to lead; each replica   *)
(* may take the same request again as long as its own store does not show  *)
(* that it has been applied.                                               *)
(*                                                                         *)
(* Time is kept in milliseconds because the history is: two events of one  *)
(* millisecond are only ordered by the rule of the checker.  Milliseconds  *)
(* in which no message is sent are left out.  A message may arrive any     *)
(* number of times once the millisecond in which it was sent is over; so a *)
(* retry, which sends the same command again, adds nothing.                *)
(***************************************************************************)
EXTENDS History

CONSTANTS
  Replica,
  OpMix,        \* the operations clients choose from
  UsedKeys,     \* and the keys
  Guesses,      \* the values a cas guesses instead of the one its client knows
  SnapshotThreshold,   \* RaftConfig.snapshot_threshold
  MaxOps,       \* bound: operations begun
  MaxLog,       \* bound: length of the log
  MaxRestarts   \* bound: restarts of replicas

VARIABLES
  now,        \* Simulator.now
  seq,        \* seq[c]: ClientSim.seq
  current,    \* current[c]: the place in the history of the operation in flight, or 0
  known,      \* known[c][k]: ClientSim.known
  requests,   \* the ClientRequests sent; fresh are those of this millisecond
  replies,    \* the ClientReplies sent to clients that wait for them
  clog,       \* the committed log
  store,      \* store[r]: the state machine of replica r
  applied,    \* applied[r]: how much of the log it has been fed
  snap,       \* snap[r]: the last snapshot of r and how much of the log it covers
  restarts    \* restarts so far

clientVars == <<seq, current, known>>
replicaVars == <<clog, store, applied, snap, restarts>>
serviceVars == <<now, clientVars, requests, replies, replicaVars>>

InitService ==
  /\ now = 0
  /\ seq = [c \in Client |-> 0]
  /\ current = [c \in Client |-> 0]
  /\ known = [c \in Client |-> [k \in Key |-> Nil]]
  /\ requests = {}
  /\ replies = {}
  /\ clog = <<>>
  /\ store = [r \in Replica |-> EmptyStore]
  /\ applied = [r \in Replica |-> 0]
  /\ snap = [r \in Replica |-> [upto |-> 0, data |-> Snapshot(EmptyStore)]]
  /\ restarts = 0

-----------------------------------------------------------------------------
(* Clients                                                                 *)

\* Network.latency is at least one millisecond.
Arrived(m) == ~m.fresh

\* Message m on its way, unless an older copy of it is.
Sent(messages, m) ==
  messages \cup (IF [m EXCEPT !.fresh = FALSE] \in messages THEN {} ELSE {m})

\* A token names the operation that writes it, by client and number; an append adds
\* the last digit of its number only, under -1.
Token(c) == << <<c, seq[c]>> >>
Digit(c) == << <<-1, seq[c] % 10>> >>

\* _choose: the arguments an operation may get.
Arguments(c, op, k) ==
  CASE op = "put" -> {<<Token(c)>>}
    [] op = "append" -> {<<Digit(c)>>}
    [] op = "cas" -> {<<old, Token(c)>> : old \in {known[c][k]} \cup Guesses}
    [] op = "get" -> {<<>>}

Begin(c) ==
  /\ current[c] = 0
  /\ Len(history) < MaxOps
  /\ \E op \in OpMix, k \in UsedKeys : \E args \in Arguments(c, op, k) :
       /\ history' = Append(history, BegunOp(c, k, op, args, now))
       /\ requests' = Sent(requests,
            [cmd |-> [client |-> c, seq |-> seq[c] + 1, op |-> op, key |-> k, args |-> args],
             fresh |-> TRUE])
  /\ seq' = [seq EXCEPT ![c] = @ + 1]
  /\ current' = [current EXCEPT ![c] = Len(history')]
  /\ UNCHANGED <<now, known, replies, replicaVars>>

\* Whether a reply is for the operation in flight.
Awaited(m) == current[m.client] # 0 /\ m.seq = seq[m.client]

\* What a client takes the value of key k to be after operation o returned value.
Learned(o, value) ==
  CASE o.op = "get" -> value
    [] o.op = "put" -> o.args[1]
    [] o.op = "cas" /\ value = True -> o.args[2]
    [] OTHER -> Nil

\* on_reply with ok; a refusal leads to a retry, and what the client does not wait
\* for is dropped.
OnReply(m) ==
  LET c == m.client
      o == history[current[c]]
  IN /\ Arrived(m)
     /\ Awaited(m)
     /\ history' = [history EXCEPT ![current[c]] = CompletedOp(@, now, m.value)]
     /\ known' = [known EXCEPT ![c][o.key] = Learned(o, m.value)]
     /\ current' = [current EXCEPT ![c] = 0]
     /\ replies' = {x \in replies : x.client # c}
     /\ UNCHANGED <<now, seq, requests, replicaVars>>

-----------------------------------------------------------------------------
(* Replicas                                                                *)

Reply(cmd, value) ==
  LET m == [client |-> cmd.client, seq |-> cmd.seq, value |-> value, fresh |-> TRUE]
  IN replies' = IF Awaited(m) THEN Sent(replies, m) ELSE replies

\* handle_client_request for a command that the store of the leader does not show:
\* it comes to be committed.
Propose(r, q) ==
  /\ Arrived(q)
  /\ ~Duplicate(store[r], q.cmd)
  /\ Len(clog) < MaxLog
  /\ clog' = Append(clog, q.cmd)
  /\ UNCHANGED <<now, history, clientVars, requests, replies, store, applied, snap, restarts>>

\* handle_client_request for one that it shows.
AnswerFromSession(r, q) ==
  LET session == store[r].sessions[q.cmd.client]
  IN /\ Arrived(q)
     /\ Duplicate(store[r], q.cmd)
     /\ Reply(q.cmd, IF q.cmd.seq = session.seq THEN session.result ELSE Nil)
     /\ UNCHANGED <<now, history, clientVars, requests, replicaVars>>

\* apply_committed for one more entry, the reply if a client waits for it here, and
\* maybe_compact.
ApplyNext(r) ==
  /\ applied[r] < Len(clog)
  /\ LET cmd == clog[applied[r] + 1]
         new == Apply(store[r], cmd)
     IN /\ store' = [store EXCEPT ![r] = new]
        /\ applied' = [applied EXCEPT ![r] = @ + 1]
        /\ snap' = IF applied[r] + 1 - snap[r].upto < SnapshotThreshold THEN snap
                   ELSE [snap EXCEPT ![r] = [upto |-> applied[r] + 1, data |-> Snapshot(new)]]
        /\ Reply(cmd, ResultFor(store[r], cmd))
  /\ UNCHANGED <<now, history, clientVars, requests, clog, restarts>>

\* The state machine of r becomes what s says.
LoadSnapshot(r, s) ==
  /\ snap' = [snap EXCEPT ![r] = s]
  /\ store' = [store EXCEPT ![r] = Restore(s.data)]
  /\ applied' = [applied EXCEPT ![r] = s.upto]
  /\ UNCHANGED <<now, history, clientVars, requests, replies, clog>>

\* handle_install_snapshot.
InstallSnapshot(r, s) ==
  /\ snap[s].upto > applied[r]
  /\ LoadSnapshot(r, snap[s])
  /\ UNCHANGED restarts

\* A crash and the restart.
Restart(r) ==
  /\ restarts < MaxRestarts
  /\ restarts' = restarts + 1
  /\ LoadSnapshot(r, snap[r])

Tick ==
  /\ \E m \in requests \cup replies : m.fresh
  /\ now' = now + 1
  /\ requests' = {[q EXCEPT !.fresh = FALSE] : q \in requests}
  /\ replies' = {[m EXCEPT !.fresh = FALSE] : m \in replies}
  /\ UNCHANGED <<history, clientVars, replicaVars>>

NextService ==
  \/ \E c \in Client : Begin(c)
  \/ \E m \in replies : OnReply(m)
  \/ \E r \in Replica :
       \/ \E q \in requests : Propose(r, q) \/ AnswerFromSession(r, q)
       \/ \E s \in Replica : InstallSnapshot(r, s)
       \/ ApplyNext(r)
       \/ Restart(r)
  \/ Tick
=============================================================================
