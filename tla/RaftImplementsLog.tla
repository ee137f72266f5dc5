------------------------- MODULE RaftImplementsLog --------------------------
(***************************************************************************)
(* The cluster implements the replicated log: the committed log is what    *)
(* the oracle has recorded, and the commands applied by a server are the   *)
(* history of its state machine.                                           *)
(***************************************************************************)
EXTENDS Raft

CommittedLog ==
  [k \in 1 .. Cardinality({r.index : r \in committed}) |->
     (CHOOSE r \in committed : r.index = k).cmd]

Log == INSTANCE ReplicatedLog WITH
  clog <- CommittedLog,
  applied <- [i \in Server |-> node[i].sm],
  up <- alive

\* Every step of the cluster extends the committed log or leaves it, applies a
\* prefix of it at one live server, or crashes or restarts a server: no server
\* ever applies what is not committed, skips an entry, or goes back without a
\* crash.  It follows apply_committed through compaction and InstallSnapshot.
ImplementsLog == Log!Spec

\* The same of an execution that is taken up in the middle, with entries committed and
\* applied: a deposed leader that restarts and a successor that has yet to learn of
\* the commit go on as the log does.
GoesOnAsLog == Log!Steps
=============================================================================
