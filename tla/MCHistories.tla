---------------------------- MODULE MCHistories ----------------------------
(***************************************************************************)
(* A run of the service and the check of its history, as run_and_check of  *)
(* raftlab/runner.py does it.  The checker is also given histories that no *)
(* working service produces: it has to tell right from wrong.              *)
(***************************************************************************)
EXTENDS Service, Checker, TLC

CONSTANTS
  Recorded,   \* the number of operations in the histories given to the checker
  LastTime    \* their last millisecond

ReplicaSymmetry == Permutations(Replica)

allVars == <<history, serviceVars, checkerVars>>

Ready == verdict = Nil /\ search = Nil /\ keysLeft = <<>>

\* The keys that occur, sorted.
KeysUsed ==
  LET used == {history[i].key : i \in DOMAIN history}
  IN [n \in 1 .. Cardinality(used) |->
        CHOOSE k \in used : Cardinality({j \in used : j < k}) = n - 1]

\* The run ends, whatever is under way, and its history is handed to the checker.
EndRun ==
  /\ Ready /\ budget = 0
  /\ history # <<>>
  /\ budget' \in Budgets
  /\ keysLeft' = KeysUsed
  /\ now' = 0
  /\ seq' = [c \in Client |-> 0]
  /\ current' = [c \in Client |-> 0]
  /\ known' = [c \in Client |-> [k \in Key |-> Nil]]
  /\ requests' = {}
  /\ replies' = {}
  /\ clog' = <<>>
  /\ store' = [r \in Replica |-> EmptyStore]
  /\ applied' = [r \in Replica |-> 0]
  /\ snap' = [r \in Replica |-> [upto |-> 0, data |-> Snapshot(EmptyStore)]]
  /\ restarts' = 0
  /\ UNCHANGED <<history, search, verdict>>

-----------------------------------------------------------------------------
(* Histories for the checker: every operation by a client of its own, and   *)
(* every placement in time of their calls and returns.                      *)

T(i) == << <<i, 0>> >>

\* The operations with what they may have returned, right or wrong.
Puts(i) == {[op |-> "put", args |-> <<T(i)>>, result |-> Nil]}
Gets(i) == {[op |-> "get", args |-> <<>>, result |-> v]
              : v \in {Nil} \cup {T(j) : j \in 1 .. Recorded \ {i}}}
Appends(i) == {[op |-> "append", args |-> << << <<-1, 0>> >> >>, result |-> Nil]}
Swaps(i) == {[op |-> "cas", args |-> <<T(j), T(i)>>, result |-> r]
              : j \in 1 .. Recorded \ {i}, r \in {True, False}}

Spans ==
  {[invoke |-> a, ret |-> b] : a \in 0 .. LastTime, b \in (1 .. LastTime) \cup {Nil}}

RecordedOp(i, call, k, span) ==
  LET done == span.ret # Nil
  IN [client |-> i - 1, key |-> k, op |-> call.op, args |-> call.args,
      invoke |-> span.invoke, ret |-> span.ret,
      result |-> IF done THEN call.result ELSE Nil, completed |-> done]

InitRecorded ==
  /\ \E spans \in [1 .. Recorded -> {s \in Spans : s.ret = Nil \/ s.invoke < s.ret}] :
       /\ spans[1].invoke = 0
       /\ \A i \in 1 .. Recorded - 1 : spans[i].invoke <= spans[i + 1].invoke
       /\ \E calls \in {<<a, b, c>> : a \in Puts(1) \cup Gets(1) \cup Swaps(1) \cup Appends(1),
                                      b \in Puts(2) \cup Gets(2) \cup Swaps(2),
                                      c \in Puts(3) \cup Gets(3) \cup Swaps(3)} :
            \E keys \in [1 .. 3 -> Key] :
              /\ \/ \A i \in 1 .. 3 : keys[i] = 0
                 \/ \A i \in 1 .. 3 : calls[i].op \in {"put", "get"}
              /\ history = [i \in 1 .. 3 |-> RecordedOp(i, calls[i], keys[i], spans[i])]
  /\ InitService
  /\ search = Nil /\ verdict = Nil
  /\ budget = CHOOSE b \in Budgets : \A c \in Budgets : c <= b
  /\ keysLeft = KeysUsed

-----------------------------------------------------------------------------
InitRun ==
  /\ history = <<>>
  /\ InitService
  /\ InitChecker

NextAll ==
  \/ Ready /\ budget = 0 /\ NextService /\ UNCHANGED checkerVars
  \/ EndRun
  \/ NextChecker /\ UNCHANGED <<history, serviceVars>>

SpecHistories == (InitRun \/ InitRecorded) /\ [][NextAll]_allVars

\* Whatever the clients have seen so far is linearizable: through retries that reach
\* the log twice, replicas that lag, snapshots and restarts, and with the return of an
\* operation put before the beginning of another one in the same millisecond.
ServiceLinearizable == budget = 0 => Linearizable
=============================================================================
