------------------------------ MODULE KVStore ------------------------------
(***************************************************************************)
(* The key-value store of raftlab/kv/statemachine.py: get, put, cas and    *)
(* append on the keys, and client sessions for exactly-once application.   *)
(*                                                                         *)
(* A value is Nil or a string, and a string is the sequence of the tokens  *)
(* that it was put together from.  A command is a record [client, seq, op, *)
(* key, args].  No-ops and configuration entries leave the store alone and *)
(* are left out.                                                           *)
(***************************************************************************)
EXTENDS Integers, Sequences, FiniteSets

CONSTANTS
  Client,      \* the client ids, range(n_clients)
  Key,         \* the keys k0, k1, ... by their numbers
  Nil,         \* Python's None, True and False
  True,
  False

-----------------------------------------------------------------------------
(* One key                                                                 *)

\* apply_pure: the new value and the result.
ApplyPure(value, op, args) ==
  CASE op = "get" -> <<value, value>>
    [] op = "put" -> <<args[1], Nil>>
    [] op = "append" -> <<(IF value = Nil THEN <<>> ELSE value) \o args[1], Nil>>
    [] op = "cas" -> IF value = args[1] THEN <<args[2], True>> ELSE <<value, False>>

-----------------------------------------------------------------------------
(* The state machine.  Sequence number 0 stands for a client that has no    *)
(* session; the numbers of commands start at 1.                             *)

NoSession == [seq |-> 0, result |-> Nil]

EmptyStore ==
  [data |-> [k \in Key |-> Nil], sessions |-> [c \in Client |-> NoSession]]

\* Whether cmd has been executed before: a retry, or a copy of an older command.
Duplicate(sm, cmd) == cmd.seq <= sm.sessions[cmd.client].seq

Execute(sm, cmd) ==
  LET r == ApplyPure(sm.data[cmd.key], cmd.op, cmd.args)
  IN [data |-> [sm.data EXCEPT ![cmd.key] = r[1]],
      sessions |-> [sm.sessions EXCEPT ![cmd.client] = [seq |-> cmd.seq, result |-> r[2]]]]

\* apply: the state machine afterwards; its result is in the session of the client.
Apply(sm, cmd) == IF Duplicate(sm, cmd) THEN sm ELSE Execute(sm, cmd)

ResultFor(sm, cmd) == Apply(sm, cmd).sessions[cmd.client].result

-----------------------------------------------------------------------------
(* Snapshots: the keys that have a value and the clients that have a session *)

Snapshot(sm) ==
  [data |-> {<<k, sm.data[k]>> : k \in {j \in Key : sm.data[j] # Nil}},
   sessions |-> {<<c, sm.sessions[c].seq, sm.sessions[c].result>>
                   : c \in {d \in Client : sm.sessions[d].seq # 0}}]

\* Mutant: only the data comes back.
RestoreData(snap) ==
  [EmptyStore EXCEPT
     !.data = [k \in Key |-> IF \E e \in snap.data : e[1] = k
                             THEN (CHOOSE e \in snap.data : e[1] = k)[2] ELSE Nil]]

Restore(snap) ==
  [data |-> [k \in Key |-> IF \E e \in snap.data : e[1] = k
                           THEN (CHOOSE e \in snap.data : e[1] = k)[2] ELSE Nil],
   sessions |-> [c \in Client |->
                   IF \E e \in snap.sessions : e[1] = c
                   THEN LET e == CHOOSE e \in snap.sessions : e[1] = c
                        IN [seq |-> e[2], result |-> e[3]]
                   ELSE NoSession]]
=============================================================================
