--------------------------- MODULE ReplicatedLog ----------------------------
(***************************************************************************)
(* What the cluster promises to the state machines it drives: one log of   *)
(* commands that only grows, of which every live server has applied a      *)
(* prefix.  A server that comes back from a crash may have to apply some   *)
(* of it again, from the state machine it had saved.                       *)
(***************************************************************************)
EXTENDS Naturals, Sequences

CONSTANTS Server, Command

VARIABLES
  clog,     \* the log of committed commands
  applied,  \* applied[i]: the commands the state machine of i has been fed
  up        \* whether server i is running

vars == <<clog, applied, up>>

Init ==
  /\ clog = <<>>
  /\ applied = [i \in Server |-> <<>>]
  /\ up = [i \in Server |-> TRUE]

Prefix(s, t) == Len(s) <= Len(t) /\ s = SubSeq(t, 1, Len(s))

\* Commands are chosen for the end of the log.
Commit ==
  /\ clog' \in Seq(Command)
  /\ Prefix(clog, clog')

\* Server i applies more of the log, which may have just grown.
Apply(i) ==
  /\ up[i]
  /\ Commit
  /\ \E k \in Len(applied[i]) .. Len(clog') :
       applied' = [applied EXCEPT ![i] = SubSeq(clog', 1, k)]
  /\ UNCHANGED up

Crash(i) ==
  /\ up[i]
  /\ up' = [up EXCEPT ![i] = FALSE]
  /\ UNCHANGED <<clog, applied>>

\* Server i comes back with what it had saved.
Recover(i) ==
  /\ ~up[i]
  /\ up' = [up EXCEPT ![i] = TRUE]
  /\ \E k \in 0 .. Len(applied[i]) :
       applied' = [applied EXCEPT ![i] = SubSeq(clog, 1, k)]
  /\ UNCHANGED clog

Next == \E i \in Server : Apply(i) \/ Crash(i) \/ Recover(i)

\* What every step keeps to, from wherever the log has got.
Steps == [][Next]_vars

Spec == Init /\ Steps
=============================================================================
