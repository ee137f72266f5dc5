------------------------------ MODULE History ------------------------------
(***************************************************************************)
(* The recorded operations of the clients (raftlab/check/history.py), and  *)
(* what it means that they are linearizable.                               *)
(***************************************************************************)
EXTENDS KVStore

LOCAL INSTANCE SequencesExt

VARIABLE history   \* History.ops, in the order in which the operations began

\* An operation that has just begun; ret and result are set on completion.
BegunOp(c, k, op, args, now) ==
  [client |-> c, key |-> k, op |-> op, args |-> args, invoke |-> now,
   ret |-> Nil, result |-> Nil, completed |-> FALSE]

CompletedOp(o, now, value) ==
  [o EXCEPT !.ret = now, !.result = value, !.completed = TRUE]

\* by_key: the operations of one key.
ByKey(k) == SelectSeq(history, LAMBDA o : o.key = k)

-----------------------------------------------------------------------------
(* Linearizability, by its definition: the completed operations and some of *)
(* the others have an order that respects real time and in which each       *)
(* completed one returns what a single store would return.                  *)

\* Whether a had returned when b began; of two events in one millisecond the return
\* counts as the earlier one.
Precedes(a, b) == a.completed /\ a.ret <= b.invoke

\* Whether a single store that executes ops in turn gives the recorded results.
Legal(ops) ==
  LET data[n \in 0 .. Len(ops)] ==
        IF n = 0 THEN EmptyStore.data
        ELSE [data[n - 1] EXCEPT ![ops[n].key] = ApplyPure(@, ops[n].op, ops[n].args)[1]]
  IN \A n \in 1 .. Len(ops) :
       ops[n].completed =>
         ops[n].result = ApplyPure(data[n - 1][ops[n].key], ops[n].op, ops[n].args)[2]

Linearizable ==
  LET Completed == {i \in DOMAIN history : history[i].completed}
  IN \E Pending \in SUBSET (DOMAIN history \ Completed) :
       \E order \in SetToSeqs(Completed \cup Pending) :
         /\ \A i, j \in DOMAIN order :
              i < j => ~Precedes(history[order[j]], history[order[i]])
         /\ Legal([n \in DOMAIN order |-> history[order[n]]])
=============================================================================
