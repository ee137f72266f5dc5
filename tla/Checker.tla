------------------------------ MODULE Checker ------------------------------
(***************************************************************************)
(* The linearizability checker (raftlab/check/linearizability.py): the     *)
(* depth-first search of check_key, one step per round of its loop, over   *)
(* the keys of the history in turn.                                        *)
(*                                                                         *)
(* The events of a key are in a doubly linked list; an operation that has  *)
(* been given its place in the order is lifted out with its return, and    *)
(* goes back when the search backs up.  Positions in the list are counted  *)
(* from 1; 0 is its head and n + 1 its tail.                               *)
(***************************************************************************)
EXTENDS History

CONSTANT Budgets   \* the values of max_steps

VARIABLES
  keysLeft,   \* the keys that are still to be checked, in order
  search,     \* the state of check_key, Nil when no search is under way
  budget,     \* max_steps
  verdict     \* what check_history returns: "ok", "bad", "unknown", or Nil

checkerVars == <<keysLeft, search, budget, verdict>>

InitChecker ==
  /\ keysLeft = <<>>
  /\ search = Nil
  /\ budget = 0
  /\ verdict = Nil

-----------------------------------------------------------------------------
(* The event list                                                          *)

RET == 0

CALL == 1
Infinity == 1000000

\* The events of ops: [time, kind, op].  An operation that did not complete returns
\* at the end of time.
EventsOf(ops) ==
  {[time |-> ops[i].invoke, kind |-> CALL, op |-> i] : i \in DOMAIN ops} \cup
  {[time |-> IF ops[i].completed THEN ops[i].ret ELSE Infinity, kind |-> RET, op |-> i]
     : i \in DOMAIN ops}

Earlier(d, e) ==
  \/ d.time < e.time
  \/ d.time = e.time /\ d.kind < e.kind
  \/ d.time = e.time /\ d.kind = e.kind /\ d.op < e.op

Sorted(events) ==
  [p \in 1 .. Cardinality(events) |->
     CHOOSE e \in events : Cardinality({d \in events : Earlier(d, e)}) = p - 1]

\* match: the position of the return of the call at position p.
ReturnOf(list, p) ==
  CHOOSE q \in DOMAIN list : list[q].kind = RET /\ list[q].op = list[p].op

\* The links nxt and prv.
Unlink(l, p) == [nxt |-> [l.nxt EXCEPT ![l.prv[p]] = l.nxt[p]],
                 prv |-> [l.prv EXCEPT ![l.nxt[p]] = l.prv[p]]]

Relink(l, p) == [nxt |-> [l.nxt EXCEPT ![l.prv[p]] = p],
                 prv |-> [l.prv EXCEPT ![l.nxt[p]] = p]]

Lift(l, call, ret) == Unlink(Unlink(l, call), ret)

\* Mutant: the return stays out of the list.
UnliftCall(l, call, ret) == Relink(l, call)

Unlift(l, call, ret) == Relink(Relink(l, ret), call)

-----------------------------------------------------------------------------
(* check_key                                                               *)

Start(ops) ==
  LET list == Sorted(EventsOf(ops))
      n == Len(list)
  IN [ops |-> ops, list |-> list,
      links |-> [nxt |-> [p \in 0 .. n + 1 |-> p + 1],
                 prv |-> [p \in 0 .. n + 1 |-> p - 1]],
      entry |-> 1, state |-> Nil, linearized |-> {}, cache |-> {}, stack |-> <<>>,
      steps |-> 0]

EndOf(s) == Len(s.list) + 1

\* while nxt[head] != tail
Unfinished == search # Nil /\ search.links.nxt[0] # EndOf(search)

WithinBudget == search.steps <= budget

AtCall == search.entry # EndOf(search) /\ search.list[search.entry].kind = CALL

OpAt(s) == s.ops[s.list[s.entry].op]

Outcome(s) == ApplyPure(s.state, OpAt(s).op, OpAt(s).args)

\* Whether the operation at the entry may come next.
Allowed(s) == ~OpAt(s).completed \/ Outcome(s)[2] = OpAt(s).result

\* Mutant: the memo table forgets the state.
CacheKeyOfSet(s) == <<s.linearized \cup {s.list[s.entry].op}, Nil>>

CacheKey(s) == <<s.linearized \cup {s.list[s.entry].op}, Outcome(s)[1]>>

\* Whether it may come next and has not been tried from the same situation.
Promising(s) == Allowed(s) /\ CacheKey(s) \notin s.cache

\* The entry is given the next place in the order.
Linearize ==
  LET s == search
      links == Lift(s.links, s.entry, ReturnOf(s.list, s.entry))
  IN /\ Unfinished /\ WithinBudget /\ AtCall
     /\ Promising(s)
     /\ search' = [s EXCEPT !.steps = @ + 1,
                            !.cache = @ \cup {CacheKey(s)},
                            !.stack = Append(@, <<s.entry, s.state, s.linearized>>),
                            !.linearized = @ \cup {s.list[s.entry].op},
                            !.state = Outcome(s)[1],
                            !.links = links,
                            !.entry = links.nxt[0]]
     /\ UNCHANGED <<keysLeft, budget, verdict>>

\* It is passed over.
PassOver ==
  /\ Unfinished /\ WithinBudget /\ AtCall
  /\ ~Promising(search)
  /\ search' = [search EXCEPT !.steps = @ + 1, !.entry = search.links.nxt[@]]
  /\ UNCHANGED <<keysLeft, budget, verdict>>

\* A return, or the end of the list: the last choice is undone.
Backtrack ==
  LET s == search
      top == s.stack[Len(s.stack)]
      links == Unlift(s.links, top[1], ReturnOf(s.list, top[1]))
  IN /\ Unfinished /\ WithinBudget /\ ~AtCall
     /\ s.stack # <<>>
     /\ search' = [s EXCEPT !.steps = @ + 1,
                            !.stack = SubSeq(@, 1, Len(@) - 1),
                            !.state = top[2],
                            !.linearized = top[3],
                            !.links = links,
                            !.entry = links.nxt[top[1]]]
     /\ UNCHANGED <<keysLeft, budget, verdict>>

Conclude(v) == verdict' = v /\ search' = Nil /\ keysLeft' = <<>> /\ UNCHANGED budget

\* A return and nothing to undo.
Refuse ==
  /\ Unfinished /\ WithinBudget /\ ~AtCall
  /\ search.stack = <<>>
  /\ Conclude("bad")

GiveUp ==
  /\ Unfinished /\ ~WithinBudget
  /\ Conclude("unknown")

-----------------------------------------------------------------------------
(* check_history                                                           *)

NextKey ==
  /\ verdict = Nil
  /\ keysLeft # <<>>
  /\ search = Nil \/ ~Unfinished
  /\ search' = Start(ByKey(Head(keysLeft)))
  /\ keysLeft' = Tail(keysLeft)
  /\ UNCHANGED <<budget, verdict>>

Accept ==
  /\ keysLeft = <<>>
  /\ search # Nil /\ ~Unfinished
  /\ Conclude("ok")

NextChecker ==
  \/ NextKey
  \/ Linearize
  \/ PassOver
  \/ Backtrack
  \/ Refuse
  \/ GiveUp
  \/ Accept

-----------------------------------------------------------------------------
(* Properties                                                              *)

\* The checker answers "ok" just for the linearizable histories, "bad" just for the
\* others: neither the memo table, nor the search key by key, nor the place it gives
\* to operations that never completed makes it miss an order or find a wrong one.
VerdictRight ==
  /\ verdict = "ok" => Linearizable
  /\ verdict = "bad" => ~Linearizable

\* The operations on the stack, in their order.
Chosen(s) == [d \in DOMAIN s.stack |-> s.list[s.stack[d][1]].op]

\* However often the search has backed up, the list holds in their order the events
\* of just those operations that have no place yet, in both directions, and the
\* memory of a search agrees with the choices on its stack.
SearchConsistent ==
  Unfinished =>
    LET s == search
        left == {p \in DOMAIN s.list :
                   \A d \in DOMAIN s.stack : Chosen(s)[d] # s.list[p].op} \cup {0, EndOf(s)}
    IN /\ \A p \in left \ {EndOf(s)} :
            LET q == s.links.nxt[p]
            IN /\ q \in left /\ p < q /\ s.links.prv[q] = p
               /\ \A x \in left : ~(p < x /\ x < q)
       /\ s.linearized = {Chosen(s)[d] : d \in DOMAIN s.stack}
       /\ Cardinality(s.linearized) = Len(s.stack)
       /\ s.entry \in left \ {0}
=============================================================================
