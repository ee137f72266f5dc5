---------------------------- MODULE MCSchedules ----------------------------
(* TLC instance for Faults and Shrink: a fault schedule is either carried  *)
(* out or reduced.                                                         *)
EXTENDS Faults, Shrink

CONSTANTS MaxStart    \* bound: the latest start of a fault

FaultsOf(Kind) ==
  {f \in UNION {NodeFaults(s, l) \cup Cuts(s, l) : s \in 1 .. MaxStart, l \in 1 .. MaxLength}
     : f.kind \in Kind}

Pairs ==
  {fs \in FaultsOf({"crash", "pause", "partition"}) \X FaultsOf({"crash", "pause", "partition"})
     : InOrder(fs)}

\* Three faults that may meet on node 0.
OnOneNode == {f \in FaultsOf({"crash", "pause"}) : f.node \in {0, None}}

Triples == {fs \in OnOneNode \X OnOneNode \X OnOneNode : InOrder(fs)}

SlackValues == <<1, 2>>

InitSchedules ==
  \/ (\E fs \in Pairs \cup Triples : InitFaults(fs)) /\ InitIdle
  \/ InitFaults(<<>>) /\ InitShrink

schedulesVars == <<faultsVars, shrinkVars>>

NextSchedules ==
  \/ phase = "idle" /\ NextFaults /\ UNCHANGED shrinkVars
  \/ NextShrink /\ UNCHANGED faultsVars

SpecSchedules ==
  InitSchedules /\ [][NextSchedules]_schedulesVars /\ WF_shrinkVars(NextShrink)
=============================================================================
