------------------------------- MODULE Shrink -------------------------------
(***************************************************************************)
(* The shrinker (raftlab/shrink.py): delta debugging of a failing fault    *)
(* schedule, one step per replay.                                          *)
(*                                                                         *)
(* A replay is a pure function of the configuration and the faults, but    *)
(* any function: nothing says that fewer faults, less time or fewer        *)
(* clients fail less.  `outcomes' holds what the replays of the present    *)
(* configuration have shown, so that the same replay shows the same twice. *)
(***************************************************************************)
EXTENDS Integers, Sequences, FiniteSets

CONSTANTS
  NFaults,     \* the number of faults generated
  NClients,    \* SimConfig.n_clients
  Duration,    \* SimConfig.duration_ms
  Slacks,      \* the slacks tried, in order
  Kinds        \* the kinds of failures, NoProgress among them

ASSUME FaultsAssumption == NFaults \in Nat

VARIABLES
  phase,       \* the part of shrink that is under way; "idle" or "done" outside
  target,      \* the kind of failure to reproduce
  repro,       \* the faults left: the set of their numbers
  position,    \* what is tried next: i of drop_pass, the slack, n of the clients
  changed,     \* drop_pass: whether this pass has dropped a fault
  failedAt,    \* best.first.time
  clients,     \* cfg.n_clients and cfg.duration_ms
  duration,
  outcomes     \* the kind that a replay of these faults has, under the present cfg

shrinkVars ==
  <<phase, target, repro, position, changed, failedAt, clients, duration, outcomes>>

InitIdle ==
  /\ phase = "idle" /\ target = "ok"
  /\ repro = {} /\ outcomes = <<>>
  /\ position = 0 /\ changed = FALSE /\ failedAt = 0
  /\ clients = 0 /\ duration = 0

\* The base run fails.
InitShrink ==
  /\ phase = "drop"
  /\ target \in Kinds
  /\ repro = 1 .. NFaults
  /\ outcomes = [fs \in {repro} |-> target]
  /\ position = 1 /\ changed = FALSE /\ failedAt = 0
  /\ clients = NClients /\ duration = Duration

-----------------------------------------------------------------------------
\* A replay of the faults fs under the present configuration has outcome o.
Replay(fs, o) ==
  /\ fs \in DOMAIN outcomes => o = outcomes[fs]
  /\ outcomes' = [gs \in DOMAIN outcomes \cup {fs} |-> IF gs = fs THEN o ELSE outcomes[gs]]

\* Mutant: any failure will do.
FailsSomehow(o) == o # "ok"

\* fails: the replay reproduces the failure.
Fails(o) == o = target

Turn(next) == phase' = next /\ position' = 1

\* The i-th of the faults left.
Nth(i) == CHOOSE f \in repro : Cardinality({g \in repro : g <= f}) = i

\* drop_pass, one candidate.
Drop ==
  /\ phase \in {"drop", "drop again"}
  /\ position <= Cardinality(repro)
  /\ LET candidate == repro \ {Nth(position)}
     IN \E o \in Kinds \cup {"ok"} :
          /\ Replay(candidate, o)
          /\ IF Fails(o)
             THEN repro' = candidate /\ changed' = TRUE /\ UNCHANGED position
             ELSE position' = position + 1 /\ UNCHANGED <<repro, changed>>
  /\ UNCHANGED <<phase, target, failedAt, clients, duration>>

\* Mutant: one pass is enough.
OnePass == FALSE

\* Mutant: every pass is followed by another as soon as one has dropped a fault.
AnyPass == Cardinality(repro) < NFaults

\* drop_pass starts over while the last pass has changed something.
PassAgain == changed

EndPass ==
  /\ phase \in {"drop", "drop again"}
  /\ position > Cardinality(repro)
  /\ changed' = FALSE
  /\ IF PassAgain THEN Turn(phase)
     ELSE Turn(IF phase = "drop" THEN "best" ELSE "done")
  /\ UNCHANGED <<target, repro, failedAt, clients, duration, outcomes>>

\* The run whose end is moved: never that of a liveness failure.
Best ==
  /\ phase = "best"
  /\ failedAt' \in 1 .. duration
  /\ Turn(IF target = "NoProgress" THEN "fewer" ELSE "shorten")
  /\ UNCHANGED <<target, repro, changed, clients, duration, outcomes>>

\* What remains known when a smaller world with the outcome o becomes the present one.
Keep(o) ==
  outcomes' = [fs \in {repro} |-> o]

\* Whether there is another slack to try, and a run that ends by it is shorter.
CanShorten == position <= Len(Slacks) /\ failedAt + Slacks[position] < duration

Shorten ==
  /\ phase = "shorten"
  /\ CanShorten
  /\ \E o \in Kinds \cup {"ok"} :
       IF Fails(o)
       THEN duration' = failedAt + Slacks[position] /\ Keep(o) /\ Turn("fewer")
       ELSE position' = position + 1 /\ UNCHANGED <<phase, duration, outcomes>>
  /\ UNCHANGED <<target, repro, changed, failedAt, clients>>

EndShorten ==
  /\ phase = "shorten"
  /\ ~CanShorten
  /\ Turn("fewer")
  /\ UNCHANGED <<target, repro, changed, failedAt, clients, duration, outcomes>>

FewerClients ==
  /\ phase = "fewer"
  /\ position < clients
  /\ \E o \in Kinds \cup {"ok"} :
       IF Fails(o)
       THEN clients' = position /\ Keep(o) /\ Turn("drop again")
       ELSE position' = position + 1 /\ UNCHANGED <<phase, clients, outcomes>>
  /\ UNCHANGED <<target, repro, changed, failedAt, duration>>

EndFewer ==
  /\ phase = "fewer"
  /\ position >= clients
  /\ Turn("drop again")
  /\ UNCHANGED <<target, repro, changed, failedAt, clients, duration, outcomes>>

NextShrink ==
  \/ Drop \/ EndPass \/ Best
  \/ Shorten \/ EndShorten
  \/ FewerClients \/ EndFewer

SpecShrink == InitShrink /\ [][NextShrink]_shrinkVars

-----------------------------------------------------------------------------
(* Properties                                                              *)

\* The faults and the configuration that are left have been replayed together and fail
\* as the base run did: no reduction trades the failure for another one, however the
\* outcomes of smaller runs are related to those of larger ones.
StillFails ==
  phase # "idle" => outcomes[repro] = target

\* The result is 1-minimal in the world it is reported for: without any one of its
\* faults the failure is gone, and this has been seen under the final configuration,
\* not under the one the faults were first dropped in.
OneMinimal ==
  phase = "done" =>
    \A f \in repro :
      LET without == repro \ {f}
      IN without \in DOMAIN outcomes /\ outcomes[without] # target

\* Shrinking ends, whatever the replays show.
ShrinkEnds == phase # "idle" ~> phase = "done"
=============================================================================
