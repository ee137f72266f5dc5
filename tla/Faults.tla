------------------------------- MODULE Faults -------------------------------
(***************************************************************************)
(* How the simulator carries out a fault schedule: crashes, pauses with    *)
(* and without a stopped clock, and partitions, which overlap in time and  *)
(* on one node (raftlab/sim/cluster.py, network.py, faults.py).            *)
(*                                                                         *)
(* The events of the schedule are in the queue from the start, so within   *)
(* one millisecond they come before everything else, in the order of the   *)
(* schedule.  Which node leads is left open: any live one, or none.        *)
(***************************************************************************)
EXTENDS Integers, Sequences, FiniteSets

CONSTANTS
  NNodes,         \* SimConfig.n_nodes
  HealTime,       \* SimConfig.heal_time
  MaxLength,      \* bound: the length drawn for a fault
  None            \* Python's None, and a missing key

ASSUME WorldAssumption == NNodes \in Nat /\ HealTime \in Nat /\ None \notin Nat

Node == 0 .. NNodes - 1

VARIABLES
  now,            \* Simulator.now
  schedule,       \* Simulator.faults; a fault is known by its place
  fired,          \* how many events of the schedule have taken place
  up,             \* up[i]: Simulator.alive
  pausedUntil,    \* pausedUntil[i], freezeStart[i]: None if missing
  freezeStart,
  frozenMs,
  crashedBy,      \* crashedBy[f], pausedBy[f]: the victim of fault f, or None
  pausedBy,
  partitions,     \* partitions[f]: the groups of partition f, {} if it is not there
  stoodStill      \* history: for how many milliseconds the clock of i has stood still

faultsVars == <<now, schedule, fired, up, pausedUntil, freezeStart, frozenMs,
                crashedBy, pausedBy, partitions, stoodStill>>

-----------------------------------------------------------------------------
(* Schedules                                                               *)

\* Mutant: a fault takes its time, healed or not.
EndUncapped(start, length) == start + length

\* When generate lets a fault end.
End(start, length) ==
  IF start + length < HealTime THEN start + length ELSE HealTime

Fault(kind, start, length, target, i, groups, freeze) ==
  [kind |-> kind, start |-> start, end |-> End(start, length), target |-> target,
   node |-> i, groups |-> groups, freeze |-> freeze]

NodeFaults(start, length) ==
  {Fault("crash", start, length, "fixed", i, {}, FALSE) : i \in Node} \cup
  {Fault("crash", start, length, "leader", None, {}, FALSE)} \cup
  {Fault("pause", start, length, "fixed", i, {}, f) : i \in Node, f \in BOOLEAN} \cup
  {Fault("pause", start, length, "leader", None, {}, f) : f \in BOOLEAN}

\* The groups that generate draws: two, or three where there are five nodes.
Splits ==
  {groups \in SUBSET (SUBSET Node \ {{}}) :
     /\ Cardinality(groups) \in (IF NNodes < 5 THEN {2} ELSE {2, 3})
     /\ UNION groups = Node
     /\ \A g, h \in groups : g # h => g \cap h = {}}

Cuts(start, length) ==
  {Fault("partition", start, length, "fixed", None, g, FALSE) : g \in Splits} \cup
  {Fault("partition", start, length, t, None, {}, FALSE)
     : t \in {"isolate_leader", "leader_minority"}}

\* The alphabetical order of the kinds.
Rank(kind) == CASE kind = "crash" -> 1 [] kind = "partition" -> 2 [] kind = "pause" -> 3

\* The order in which generate leaves the faults.
InOrder(faults) ==
  \A k \in 1 .. Len(faults) - 1 :
    \/ faults[k].start < faults[k + 1].start
    \/ /\ faults[k].start = faults[k + 1].start
       /\ Rank(faults[k].kind) <= Rank(faults[k + 1].kind)

\* _bootstrap queues the start and the end of each fault in turn.
Events ==
  {[time |-> schedule[f].start, place |-> 2 * f - 1, fault |-> f, what |-> "start"]
     : f \in DOMAIN schedule} \cup
  {[time |-> schedule[f].end, place |-> 2 * f, fault |-> f, what |-> "end"]
     : f \in DOMAIN schedule}

Before(d, e) == d.time < e.time \/ (d.time = e.time /\ d.place < e.place)

\* The next event of the queue.
IsNext(e) == Cardinality({d \in Events : Before(d, e)}) = fired

InitFaults(faults) ==
  /\ schedule = faults
  /\ now = 0
  /\ fired = 0
  /\ up = [i \in Node |-> TRUE]
  /\ pausedUntil = [i \in Node |-> None]
  /\ freezeStart = [i \in Node |-> None]
  /\ frozenMs = [i \in Node |-> 0]
  /\ crashedBy = [f \in DOMAIN faults |-> None]
  /\ pausedBy = [f \in DOMAIN faults |-> None]
  /\ partitions = [f \in DOMAIN faults |-> {}]
  /\ stoodStill = [i \in Node |-> 0]

-----------------------------------------------------------------------------
(* Crashes and pauses                                                      *)

\* current_leader, as far as it is known here.
CurrentLeader == {i \in Node : up[i]} \cup {None}

Victims(f) ==
  IF schedule[f].target = "leader" THEN CurrentLeader ELSE {schedule[f].node}

Thaw(i) ==
  /\ freezeStart' = [freezeStart EXCEPT ![i] = None]
  /\ frozenMs' = IF freezeStart[i] = None THEN frozenMs
                 ELSE [frozenMs EXCEPT ![i] = @ + now - freezeStart[i]]

\* ev_pause.
Pause(f) ==
  /\ \E i \in Victims(f) :
       IF i = None \/ ~up[i] \/ pausedUntil[i] # None
       THEN UNCHANGED <<pausedBy, pausedUntil, freezeStart>>
       ELSE /\ pausedBy' = [pausedBy EXCEPT ![f] = i]
            /\ pausedUntil' = [pausedUntil EXCEPT ![i] = schedule[f].end]
            /\ freezeStart' = IF schedule[f].freeze
                              THEN [freezeStart EXCEPT ![i] = now] ELSE freezeStart
  /\ UNCHANGED <<up, frozenMs, crashedBy, partitions>>

\* ev_resume.
Resume(f) ==
  LET i == pausedBy[f]
  IN /\ pausedBy' = [pausedBy EXCEPT ![f] = None]
     /\ IF i = None THEN UNCHANGED <<pausedUntil, freezeStart, frozenMs>>
        ELSE pausedUntil' = [pausedUntil EXCEPT ![i] = None] /\ Thaw(i)
     /\ UNCHANGED <<up, crashedBy, partitions>>

\* Mutant: a node that is down is taken down again.
MayCrashAgain(i) == i # None

MayCrash(i) == i # None /\ up[i]

\* Mutant: the pause of a node that crashes is forgotten, the stop of its clock is not.
EndPauseOnly(i) ==
  /\ pausedUntil' = [pausedUntil EXCEPT ![i] = None]
  /\ UNCHANGED <<freezeStart, frozenMs>>

\* A crash ends the pause of its node.
EndPause(i) ==
  /\ pausedUntil' = [pausedUntil EXCEPT ![i] = None]
  /\ Thaw(i)

\* ev_crash.
Crash(f) ==
  /\ \E i \in Victims(f) :
       IF ~MayCrash(i)
       THEN UNCHANGED <<up, crashedBy, pausedUntil, freezeStart, frozenMs>>
       ELSE /\ EndPause(i)
            /\ crashedBy' = [crashedBy EXCEPT ![f] = i]
            /\ up' = [up EXCEPT ![i] = FALSE]
  /\ UNCHANGED <<pausedBy, partitions>>

\* ev_restart.
Restart(f) ==
  LET i == crashedBy[f]
  IN /\ crashedBy' = [crashedBy EXCEPT ![f] = None]
     /\ up' = IF i = None THEN up ELSE [up EXCEPT ![i] = TRUE]
     /\ UNCHANGED <<pausedUntil, freezeStart, frozenMs, pausedBy, partitions>>

-----------------------------------------------------------------------------
(* Partitions                                                              *)

\* resolve_groups: a targeted partition sets the leader apart, alone or with so many
\* of the first others that they are not a majority of all the nodes.
Groups(f, leader) ==
  LET keep == IF schedule[f].target = "isolate_leader" THEN 0 ELSE (NNodes \div 2) - 1
      others == Node \ {leader}
      side == {leader} \cup {i \in others : Cardinality({j \in others : j < i}) < keep}
  IN IF schedule[f].target = "fixed" THEN schedule[f].groups
     ELSE IF leader = None THEN {}
     ELSE {side, Node \ side}

\* ev_part_start.
Cut(f) ==
  /\ \E leader \in CurrentLeader :
       partitions' = [partitions EXCEPT ![f] = Groups(f, leader)]
  /\ UNCHANGED <<up, pausedUntil, freezeStart, frozenMs, crashedBy, pausedBy>>

\* ev_part_end.
Heal(f) ==
  /\ partitions' = [partitions EXCEPT ![f] = {}]
  /\ UNCHANGED <<up, pausedUntil, freezeStart, frozenMs, crashedBy, pausedBy>>

\* Network.blocked: some partition has i and j in different groups.
Blocked(i, j) ==
  \E f \in DOMAIN partitions :
    {g \in partitions[f] : i \in g} # {g \in partitions[f] : j \in g}

-----------------------------------------------------------------------------
Fire(e) ==
  /\ IsNext(e)
  /\ e.time = now
  /\ LET f == e.fault
         kind == schedule[f].kind
     IN \/ kind = "crash" /\ e.what = "start" /\ Crash(f)
        \/ kind = "crash" /\ e.what = "end" /\ Restart(f)
        \/ kind = "pause" /\ e.what = "start" /\ Pause(f)
        \/ kind = "pause" /\ e.what = "end" /\ Resume(f)
        \/ kind = "partition" /\ e.what = "start" /\ Cut(f)
        \/ kind = "partition" /\ e.what = "end" /\ Heal(f)
  /\ fired' = fired + 1
  /\ UNCHANGED <<now, schedule, stoodStill>>

\* The queue has nothing more of this millisecond, and run takes the next one.
Pass ==
  /\ now < HealTime
  /\ \A e \in Events : IsNext(e) => e.time > now
  /\ now' = now + 1
  /\ stoodStill' = [i \in Node |->
       IF freezeStart[i] # None /\ pausedUntil[i] # None
       THEN stoodStill[i] + 1 ELSE stoodStill[i]]
  /\ UNCHANGED <<schedule, fired, up, pausedUntil, freezeStart, frozenMs,
                 crashedBy, pausedBy, partitions>>

NextFaults == Pass \/ \E e \in Events : Fire(e)

\* The faults that may be drawn, however long they are: none starts at the heal time.
AnyFault == UNION {NodeFaults(s, l) \cup Cuts(s, l) : s \in 0 .. HealTime - 1, l \in Nat \ {0}}

\* Any schedule is carried out.
SpecFaults ==
  /\ \E faults \in Seq(AnyFault) : InOrder(faults) /\ InitFaults(faults)
  /\ [][NextFaults]_faultsVars

-----------------------------------------------------------------------------
(* Properties                                                              *)

\* Whether node i handles ticks and messages (ev_tick, ev_deliver).
Awake(i) == up[i] /\ pausedUntil[i] = None

\* At the heal time, when the quiet tail of the run begins, every fault is over: all
\* nodes are awake and reach one another, whichever faults overlapped.
HealedInTime ==
  now = HealTime /\ (\A e \in Events : IsNext(e) => e.time > now) =>
    /\ fired = 2 * Len(schedule)
    /\ \A i, j \in Node : Awake(i) /\ ~Blocked(i, j)

\* The clock that an awake node reads (node_now) is behind by just the time that it has
\* stood still, through pauses that are cut short by a crash or by one another: it
\* never goes back, and no stop is counted twice or after a restart.
ClockHonest ==
  \A i \in Node : Awake(i) => freezeStart[i] = None /\ frozenMs[i] = stoodStill[i]

\* A node that is down is held down by one fault until that fault ends: the end of
\* another one does not bring it up.
HeldDownByOne ==
  \A i \in Node :
    LET holders == {f \in DOMAIN crashedBy : crashedBy[f] = i}
    IN /\ up[i] = (holders = {})
       /\ Cardinality(holders) <= 1
       /\ \A f \in holders : now <= schedule[f].end
=============================================================================
