---------------------------- MODULE ScheduleProofs ----------------------------
(***************************************************************************)
(* The shrinker, for any number of faults and replays that may show        *)
(* anything, and worlds of nodes under any schedule of faults.             *)
(***************************************************************************)
EXTENDS Faults, Shrink, FiniteSetTheorems, WellFoundedInduction, TLAPS

-----------------------------------------------------------------------------
(* The faults left, in order *)

\* The place of fault f among the faults R.
Place(R, f) == Cardinality({g \in R : g <= f})

\* Places are counted from 1 to the number of faults, and no two faults share one.
LEMMA Places ==
  ASSUME NEW R, NFaults \in Nat, R \subseteq 1 .. NFaults
  PROVE  /\ Cardinality(R) \in Nat
         /\ \A f \in R : Place(R, f) \in 1 .. Cardinality(R)
         /\ \A f, g \in R : Place(R, f) = Place(R, g) => f = g
<1> DEFINE upto(f) == {g \in R : g <= f}
<1>0. \A f \in R : f \in Nat
  OBVIOUS
<1>1. IsFiniteSet(R) /\ Cardinality(R) \in Nat
  <2>1. IsFiniteSet(1 .. NFaults)
    BY FS_Interval
  <2>2. IsFiniteSet(R)
    BY <2>1, FS_Subset
  <2> QED BY <2>2, FS_CardinalityType
<1>2. ASSUME NEW f \in R
      PROVE  /\ IsFiniteSet(upto(f)) /\ Cardinality(upto(f)) \in Nat
             /\ Cardinality(upto(f)) <= Cardinality(R) /\ Cardinality(upto(f)) # 0
  <2>1. upto(f) \in SUBSET R
    OBVIOUS
  <2>2. IsFiniteSet(upto(f)) /\ Cardinality(upto(f)) <= Cardinality(R)
    BY <1>1, <2>1, FS_Subset
  <2>3. f \in upto(f)
    BY <1>0
  <2> HIDE DEF upto
  <2>4. Cardinality(upto(f)) # 0
    BY <2>2, <2>3, FS_EmptySet
  <2> QED BY <2>2, <2>4, FS_CardinalityType
<1>3. ASSUME NEW f \in R, NEW g \in R, f < g
      PROVE  Cardinality(upto(f)) # Cardinality(upto(g))
  <2>0. \A x \in R : x <= f => x <= g
    BY <1>3, <1>0
  <2>1. upto(f) \in SUBSET upto(g)
    BY <2>0
  <2>2. g \in upto(g) /\ g \notin upto(f)
    BY <1>3, <1>0
  <2> HIDE DEF upto
  <2>3. Cardinality(upto(f)) # Cardinality(upto(g))
    BY <1>2, <2>1, <2>2, FS_Subset
  <2> QED BY <2>3
<1>4. \A f \in R : Place(R, f) = Cardinality(upto(f))
  BY DEF Place
<1> HIDE DEF upto
<1>5. \A f \in R : Place(R, f) \in 1 .. Cardinality(R)
  BY <1>1, <1>2, <1>4
<1>6. \A f, g \in R : f < g \/ g < f \/ f = g
  BY <1>0
<1> QED BY <1>1, <1>3, <1>4, <1>5, <1>6

-----------------------------------------------------------------------------
(* The shrinker *)

ShrinkTyped ==
  /\ phase \in {"drop", "drop again", "best", "shorten", "fewer", "done"}
  /\ repro \subseteq 1 .. NFaults
  /\ position \in Nat \ {0}
  /\ changed \in BOOLEAN

\* The present faults have been replayed in the present world, and failed as the base run.
Reproduced == repro \in DOMAIN outcomes /\ outcomes[repro] = target

\* Without fault f the failure has been seen to be gone.
Needed(f) ==
  LET without == repro \ {f}
  IN without \in DOMAIN outcomes /\ outcomes[without] # target

\* As long as a pass has dropped nothing, it has found what it has tried to be needed.
PassSound ==
  phase \in {"drop", "drop again"} /\ ~changed =>
    \A f \in repro : Place(repro, f) < position => Needed(f)

ShrinkInv == ShrinkTyped /\ Reproduced /\ PassSound /\ OneMinimal

\* The base run is a failing one.
LEMMA ShrinkBegins == InitShrink => ShrinkInv
<1> SUFFICES ASSUME InitShrink PROVE ShrinkInv
  OBVIOUS
<1>1. phase = "drop" /\ repro = 1 .. NFaults /\ position = 1 /\ changed = FALSE
  BY DEF InitShrink
<1>2. ShrinkTyped
  <2>1. changed \in BOOLEAN
    BY <1>1
  <2>2. position \in Nat \ {0} /\ repro \subseteq 1 .. NFaults
    BY <1>1
  <2> QED BY <1>1, <2>1, <2>2 DEF ShrinkTyped
<1>3. OneMinimal
  BY <1>1 DEF OneMinimal
<1>4. Reproduced
  BY DEF InitShrink, Reproduced
<1>5. \A f \in repro : ~(Place(repro, f) < position)
  <2>1. \A f \in repro : Place(repro, f) \in 1 .. Cardinality(repro)
    BY <1>1, Places, FaultsAssumption
  <2> QED BY <1>1, <2>1
<1> QED BY <1>5, <1>4, <1>2, <1>3 DEF ShrinkInv, PassSound

\* A replay remembers what it has shown, and nothing it has shown before changes.
LEMMA ReplayKnown ==
  ASSUME NEW fs, NEW o, Replay(fs, o)
  PROVE  /\ fs \in DOMAIN outcomes' /\ outcomes'[fs] = o
         /\ \A gs \in DOMAIN outcomes : gs \in DOMAIN outcomes' /\ outcomes'[gs] = outcomes[gs]
BY DEF Replay

\* A pass begins with nothing tried.
LEMMA NothingTried ==
  ASSUME ShrinkTyped', position' = 1
  PROVE  PassSound'
<1>1. \A f \in repro' : Place(repro, f)' \in 1 .. Cardinality(repro')
  <2>1. repro' \subseteq 1 .. NFaults
    BY DEF ShrinkTyped
  <2> QED BY <2>1, FaultsAssumption, Places
<1>2. \A f \in repro' : ~(Place(repro, f)' < position')
  BY <1>1
<1> QED BY <1>2 DEF PassSound
\* drop_pass goes on to the next fault, or drops this one.
LEMMA DropSound ==
  ASSUME ShrinkInv, Drop
  PROVE  ShrinkInv'
<1> DEFINE c == repro \ {Nth(position)}
<1>1. PICK o : /\ Replay(c, o)
               /\ IF Fails(o)
                  THEN repro' = c /\ changed' = TRUE /\ UNCHANGED position
                  ELSE position' = position + 1 /\ UNCHANGED <<repro, changed>>
  BY DEF Drop
<1>2. /\ phase \in {"drop", "drop again"} /\ phase' = phase /\ target' = target
  BY DEF Drop
<1>3. /\ ShrinkTyped /\ repro \in DOMAIN outcomes /\ outcomes[repro] = target /\ PassSound
  BY DEF ShrinkInv, Reproduced
<1>4. /\ c \in DOMAIN outcomes' /\ outcomes'[c] = o
      /\ \A gs \in DOMAIN outcomes : gs \in DOMAIN outcomes' /\ outcomes'[gs] = outcomes[gs]
  BY <1>1, ReplayKnown
<1>5. OneMinimal'
  BY <1>2 DEF OneMinimal
<1>6. /\ repro \subseteq 1 .. NFaults /\ position \in Nat \ {0} /\ changed \in BOOLEAN
  BY <1>3 DEF ShrinkTyped
<1>7. c \subseteq repro /\ \A f \in repro : Nth(position) = f => c = repro \ {f}
  OBVIOUS
<1> HIDE DEF c
<1>8. CASE Fails(o)
  <2>1. repro' = c /\ changed' = TRUE /\ position' = position
    BY <1>1, <1>8
  <2>2. ShrinkTyped'
    <3>1. changed' \in BOOLEAN
      BY <2>1
    <3> QED BY <1>2, <1>6, <1>7, <2>1, <3>1 DEF ShrinkTyped
  <2>3. Reproduced'
    BY <1>2, <1>4, <1>8, <2>1 DEF Reproduced, Fails
  <2>4. PassSound'
    BY <2>1 DEF PassSound
  <2> QED BY <1>5, <2>2, <2>3, <2>4 DEF ShrinkInv
<1>9. CASE ~Fails(o)
  <2>1. position' = position + 1 /\ repro' = repro /\ changed' = changed
    BY <1>1, <1>9
  <2>2. ShrinkTyped'
    <3>1. position' \in Nat \ {0}
      BY <1>6, <2>1
    <3> QED BY <1>2, <1>6, <2>1, <3>1 DEF ShrinkTyped
  <2>3. Reproduced'
    BY <1>2, <1>3, <1>4, <2>1 DEF Reproduced
  <2>4. ASSUME ~changed, NEW f \in repro, Place(repro, f) < position + 1
        PROVE  repro \ {f} \in DOMAIN outcomes' /\ outcomes'[repro \ {f}] # target
    <3>1. Place(repro, f) \in 1 .. Cardinality(repro) /\ Cardinality(repro) \in Nat
      BY <1>6, Places, FaultsAssumption
    <3>2. CASE Place(repro, f) < position
      <4>1. repro \ {f} \in DOMAIN outcomes /\ outcomes[repro \ {f}] # target
        BY <1>2, <1>3, <2>4, <3>2 DEF PassSound, Needed
      <4> QED BY <1>4, <4>1
    <3>3. CASE Place(repro, f) = position
      <4>1. Nth(position) \in repro /\ Place(repro, Nth(position)) = position
        BY <3>3 DEF Nth, Place
      <4>2. Nth(position) = f
        BY <1>6, <3>3, <4>1, Places, FaultsAssumption
      <4>3. c = repro \ {f}
        BY <1>7, <4>2
      <4> QED BY <1>4, <1>9, <4>3 DEF Fails
    <3> QED BY <1>6, <2>4, <3>1, <3>2, <3>3
  <2>5. PassSound'
    BY <1>2, <2>1, <2>4 DEF PassSound, Needed
  <2> QED BY <1>5, <2>2, <2>3, <2>5 DEF ShrinkInv
<1> QED BY <1>8, <1>9

\* A pass that has dropped something is followed by another, and the last one has found
\* every fault that is left to be needed.
LEMMA EndPassSound ==
  ASSUME ShrinkInv, EndPass
  PROVE  ShrinkInv'
<1>1. /\ phase \in {"drop", "drop again"} /\ position > Cardinality(repro)
      /\ changed' = FALSE /\ position' = 1
      /\ phase' = IF changed THEN phase ELSE IF phase = "drop" THEN "best" ELSE "done"
      /\ target' = target /\ repro' = repro /\ outcomes' = outcomes
  BY DEF EndPass, Turn, PassAgain
<1>2. /\ ShrinkTyped /\ Reproduced /\ PassSound
  BY DEF ShrinkInv
<1>3. /\ repro \subseteq 1 .. NFaults /\ position \in Nat \ {0} /\ changed \in BOOLEAN
  BY <1>2 DEF ShrinkTyped
<1>4. ShrinkTyped'
  <2>1. changed' \in BOOLEAN
    BY <1>1
  <2>2. phase' \in {"drop", "drop again", "best", "shorten", "fewer", "done"}
    BY <1>1
  <2>3. position' \in Nat \ {0} /\ repro' \subseteq 1 .. NFaults
    <3>1. position' = 1 /\ repro' = repro
      BY <1>1
    <3> QED BY <1>3, <3>1
  <2> QED BY <2>1, <2>2, <2>3 DEF ShrinkTyped
<1>5. Reproduced'
  BY <1>1, <1>2 DEF Reproduced
<1>6. PassSound'
  BY <1>1, <1>4, NothingTried
<1>7. OneMinimal'
  <2> SUFFICES ASSUME phase' = "done", NEW f \in repro
               PROVE  repro \ {f} \in DOMAIN outcomes /\ outcomes[repro \ {f}] # target
    BY <1>1 DEF OneMinimal
  <2>1. ~changed
    BY <1>1
  <2>2. Place(repro, f) \in 1 .. Cardinality(repro) /\ Cardinality(repro) \in Nat
    BY <1>3, Places, FaultsAssumption
  <2>3. \A x \in 1 .. Cardinality(repro) : x < position
    <3>1. position > Cardinality(repro) /\ position \in Nat
      BY <1>1, <1>3
    <3> QED BY <2>2, <3>1
  <2>4. Place(repro, f) < position
    BY <2>2, <2>3
  <2> QED BY <1>1, <1>2, <2>1, <2>4 DEF PassSound, Needed
<1> QED BY <1>4, <1>5, <1>6, <1>7 DEF ShrinkInv

\* The run whose end is moved, a shorter run and a smaller world keep the faults; what was
\* known of the old world is forgotten with it.
LEMMA WorldSound ==
  ASSUME ShrinkInv, Best \/ Shorten \/ EndShorten \/ FewerClients \/ EndFewer
  PROVE  ShrinkInv'
<1>1. /\ ShrinkTyped /\ Reproduced
      /\ repro \subseteq 1 .. NFaults /\ position \in Nat \ {0} /\ changed \in BOOLEAN
  BY DEF ShrinkInv, ShrinkTyped
<1>2. /\ repro' = repro /\ changed' = changed /\ target' = target
      /\ \/ position' = 1
         \/ position' = position + 1 /\ phase' = phase
      /\ phase' \in {"shorten", "fewer", "drop again"}
      /\ phase' = "drop again" => position' = 1
  BY DEF Best, Shorten, EndShorten, FewerClients, EndFewer, Turn
<1>3. outcomes' = outcomes \/ outcomes' = [fs \in {repro} |-> target]
  BY DEF Best, Shorten, EndShorten, FewerClients, EndFewer, Keep, Fails
<1>4. ShrinkTyped'
  <2>1. position' \in Nat \ {0}
    <3>1. position' = 1 \/ position' = position + 1
      BY <1>2
    <3>2. position \in Nat
      BY <1>1
    <3> QED BY <3>1, <3>2
  <2>2. changed' \in BOOLEAN
    BY <1>1, <1>2
  <2> QED BY <1>1, <1>2, <2>1, <2>2 DEF ShrinkTyped
<1>5. Reproduced'
  BY <1>1, <1>2, <1>3 DEF Reproduced
<1>6. PassSound'
  <2>1. CASE position' = 1
    BY <1>4, <2>1, NothingTried
  <2>2. CASE phase' # "drop again"
    BY <1>2, <2>2 DEF PassSound
  <2> QED BY <1>2, <2>1, <2>2
<1>7. OneMinimal'
  BY <1>2 DEF OneMinimal
<1> QED BY <1>4, <1>5, <1>6, <1>7 DEF ShrinkInv

\* The inductive invariant of the shrinker.
THEOREM ShrinkInvariance == SpecShrink => []ShrinkInv
<1>1. ShrinkInv /\ [NextShrink]_shrinkVars => ShrinkInv'
  <2> SUFFICES ASSUME ShrinkInv, [NextShrink]_shrinkVars PROVE ShrinkInv'
    OBVIOUS
  <2>1. CASE UNCHANGED shrinkVars
    BY <2>1 DEF shrinkVars, ShrinkInv, ShrinkTyped, Reproduced, PassSound, Needed, OneMinimal
  <2> QED BY <2>1, DropSound, EndPassSound, WorldSound, Zenon DEF NextShrink
<1> QED BY <1>1, ShrinkBegins, PTL DEF SpecShrink

\* What the shrinker has left always fails as the base run did, whatever its replays showed.
THEOREM FailureKept == SpecShrink => []StillFails
<1>1. ShrinkInv => StillFails
  BY DEF ShrinkInv, Reproduced, StillFails
<1> QED BY <1>1, ShrinkInvariance, PTL

\* The result is 1-minimal in the world it is reported for.
THEOREM ResultMinimal == SpecShrink => []OneMinimal
<1>1. ShrinkInv => OneMinimal
  BY DEF ShrinkInv
<1> QED BY <1>1, ShrinkInvariance, PTL

-----------------------------------------------------------------------------
(* The queue of events *)

\* How many events of E come before e.
Number(E, e) == Cardinality({d \in E : Before(d, e)})

\* Finitely many events with a time and a place of their own.
Queue(E) ==
  /\ IsFiniteSet(E)
  /\ \A e \in E : e.time \in Nat /\ e.place \in Nat
  /\ \A d, e \in E : d.place = e.place => d = e

\* The events of a queue have numbers, in the order in which they take place.
LEMMA Numbers ==
  ASSUME NEW E, Queue(E)
  PROVE  /\ Cardinality(E) \in Nat
         /\ \A e \in E : Number(E, e) \in Nat /\ Number(E, e) < Cardinality(E)
         /\ \A d, e \in E : Before(d, e) => Number(E, d) < Number(E, e)
         /\ \A d, e \in E : Before(d, e) \/ Before(e, d) \/ d = e
         /\ \A d, e \in E : Number(E, d) = Number(E, e) => d = e
<1> DEFINE first(e) == {d \in E : Before(d, e)}
<1>1. IsFiniteSet(E) /\ Cardinality(E) \in Nat
  BY FS_CardinalityType DEF Queue
<1>2. \A d, e, c \in E : /\ Before(d, e) /\ Before(e, c) => Before(d, c)
                         /\ ~Before(e, e)
                         /\ Before(d, e) \/ Before(e, d) \/ d = e
  <2>1. ASSUME NEW d \in E, NEW e \in E
        PROVE  d.time < e.time \/ e.time < d.time \/ d.time = e.time
    BY DEF Queue
  <2>2. ASSUME NEW d \in E, NEW e \in E
        PROVE  d.place < e.place \/ e.place < d.place \/ d = e
    BY DEF Queue
  <2> QED BY <2>1, <2>2 DEF Queue, Before
<1>3. ASSUME NEW e \in E
      PROVE  /\ IsFiniteSet(first(e)) /\ Cardinality(first(e)) \in Nat
             /\ Cardinality(first(e)) < Cardinality(E)
  <2>1. first(e) \in SUBSET E /\ e \in E /\ e \notin first(e)
    BY <1>2
  <2> HIDE DEF first
  <2>2. /\ IsFiniteSet(first(e)) /\ Cardinality(first(e)) <= Cardinality(E)
        /\ Cardinality(E) # Cardinality(first(e))
    BY <1>1, <2>1, FS_Subset
  <2>3. Cardinality(first(e)) \in Nat
    BY <2>2, FS_CardinalityType
  <2> QED BY <1>1, <2>2, <2>3
<1>4. ASSUME NEW d \in E, NEW e \in E, Before(d, e)
      PROVE  Cardinality(first(d)) < Cardinality(first(e))
  <2>1. first(d) \in SUBSET first(e) /\ d \in first(e) /\ d \notin first(d)
    BY <1>2, <1>4
  <2> HIDE DEF first
  <2>2. /\ Cardinality(first(d)) <= Cardinality(first(e))
        /\ Cardinality(first(e)) # Cardinality(first(d))
    BY <1>3, <2>1, FS_Subset
  <2> QED BY <1>3, <2>2
<1>5. \A e \in E : Number(E, e) = Cardinality(first(e))
  BY DEF Number
<1> HIDE DEF first
<1>6. \A d, e \in E : Before(d, e) => Number(E, d) < Number(E, e)
  BY <1>4, <1>5
<1>7. \A e \in E : Number(E, e) \in Nat /\ Number(E, e) < Cardinality(E)
  BY <1>3, <1>5
<1>8. \A d, e \in E : Number(E, d) = Number(E, e) => d = e
  <2>1. \A d, e \in E : Number(E, d) < Number(E, e) => Number(E, d) # Number(E, e)
    BY <1>7
  <2> QED BY <1>2, <1>6, <2>1
<1> QED BY <1>1, <1>2, <1>6, <1>7, <1>8

\* A non-empty set of numbers has a least one.
LEMMA LeastNumber ==
  ASSUME NEW S \in SUBSET Nat, S # {}
  PROVE  \E low \in S : \A m \in S : low <= m
<1> DEFINE R == {ss \in Nat \X Nat : ss[1] < ss[2]}
<1>1. IsWellFoundedOn(R, Nat)
  BY NatLessThanWellFounded DEF OpToRel
<1>2. PICK x \in S : \A y \in S : ~(<<y, x>> \in R)
  BY <1>1, WFMin, Zenon
<1>3. ASSUME NEW y \in S PROVE x <= y
  <2>1. x \in Nat /\ y \in Nat
    OBVIOUS
  <2>2. ~(<<y, x>> \in R)
    BY <1>2
  <2>3. ~(y < x)
    BY <2>1, <2>2
  <2> QED BY <2>1, <2>3
<1> QED BY <1>3

\* No number is left out.
LEMMA NoNumberMissing ==
  ASSUME NEW E, Queue(E), NEW n \in Nat, NEW e \in E, Number(E, e) >= n
  PROVE  \E d \in E : Number(E, d) = n /\ (d = e \/ Before(d, e))
<1> DEFINE N == {Number(E, x) : x \in {y \in E : Number(E, y) >= n}}
<1>1. /\ \A x \in E : Number(E, x) \in Nat
      /\ \A x, y \in E : Before(x, y) => Number(E, x) < Number(E, y)
      /\ \A x, y \in E : Before(x, y) \/ Before(y, x) \/ x = y
      /\ \A x, y \in E : Number(E, x) = Number(E, y) => x = y
  BY Numbers
<1>2. PICK low \in N : \A m \in N : low <= m
  <2>1. N \in SUBSET Nat /\ N # {}
    BY <1>1
  <2> HIDE DEF N
  <2> QED BY <2>1, LeastNumber
<1>3. PICK d \in E : Number(E, d) = low /\ Number(E, d) >= n
  BY <1>2
<1>4. \A x \in E : Before(x, d) => Number(E, x) < n
  BY <1>1, <1>2, <1>3
<1> DEFINE first == {x \in E : Before(x, d)}
           num == [x \in first |-> Number(E, x)]
<1>5. Number(E, d) <= n
  <2>1. num \in Injection(first, 0 .. n - 1)
    BY <1>1, <1>4 DEF Injection, IsInjective
  <2>2. IsFiniteSet(0 .. n - 1) /\ Cardinality(0 .. n - 1) = n
    <3>1. Cardinality(0 .. n - 1) = IF 0 > n - 1 THEN 0 ELSE n - 1 - 0 + 1
      BY FS_Interval
    <3>2. IsFiniteSet(0 .. n - 1)
      BY FS_Interval
    <3> QED BY <3>1, <3>2
  <2> HIDE DEF num
  <2>3. Cardinality(first) <= n
    BY <2>1, <2>2, FS_Injection
  <2> QED BY <2>3 DEF Number
<1>6. Number(E, d) = n
  BY <1>1, <1>3, <1>5
<1>7. d = e \/ Before(d, e)
  BY <1>1, <1>2, <1>3
<1> QED BY <1>6, <1>7

-----------------------------------------------------------------------------
(* The events of a schedule *)

StartOf(f) == [time |-> schedule[f].start, place |-> 2 * f - 1, fault |-> f, what |-> "start"]
EndOf(f) == [time |-> schedule[f].end, place |-> 2 * f, fault |-> f, what |-> "end"]

\* What generate draws: a fault has a kind and a victim, and ends after it starts and
\* not after the heal time.
LEMMA FaultKnown ==
  ASSUME NEW d \in AnyFault
  PROVE  /\ d.kind \in {"crash", "pause", "partition"}
         /\ d.start \in Nat /\ d.end \in Nat
         /\ d.start < d.end /\ d.end <= HealTime
         /\ d.node \in Node \cup {None}
<1>1. HealTime \in Nat
  BY WorldAssumption
<1>2. PICK s \in 0 .. HealTime - 1, l \in Nat \ {0} : d \in NodeFaults(s, l) \cup Cuts(s, l)
  BY DEF AnyFault
<1>3. s \in Nat /\ End(s, l) \in Nat /\ s < End(s, l) /\ End(s, l) <= HealTime
  BY <1>1 DEF End
<1>4. /\ d.kind \in {"crash", "pause", "partition"}
      /\ d.start = s /\ d.end = End(s, l)
      /\ d.node \in Node \cup {None}
  <2>1. CASE d \in NodeFaults(s, l)
    BY <2>1 DEF NodeFaults, Fault
  <2>2. CASE d \in Cuts(s, l)
    BY <2>2 DEF Cuts, Fault
  <2> QED BY <1>2, <2>1, <2>2
<1> QED BY <1>3, <1>4

\* The queue holds a start and an end for each fault, and nothing else.
LEMMA EventsQueue ==
  ASSUME schedule \in Seq(AnyFault)
  PROVE  /\ Queue(Events)
         /\ Cardinality(Events) = 2 * Len(schedule)
         /\ \A f \in DOMAIN schedule :
              StartOf(f) \in Events /\ EndOf(f) \in Events /\ Before(StartOf(f), EndOf(f))
         /\ \A e \in Events : \E f \in DOMAIN schedule : e = StartOf(f) \/ e = EndOf(f)
<1> DEFINE N == Len(schedule)
<1>1. N \in Nat /\ DOMAIN schedule = 1 .. N
  OBVIOUS
<1>2. \A f \in DOMAIN schedule :
        schedule[f].start \in Nat /\ schedule[f].end \in Nat /\ schedule[f].start < schedule[f].end
  <2> SUFFICES ASSUME NEW f \in DOMAIN schedule
               PROVE  schedule[f].start \in Nat /\ schedule[f].end \in Nat
                      /\ schedule[f].start < schedule[f].end
    OBVIOUS
  <2>1. schedule[f] \in AnyFault
    OBVIOUS
  <2> QED BY <2>1, FaultKnown
<1>3. /\ \A f \in DOMAIN schedule : StartOf(f) \in Events /\ EndOf(f) \in Events
      /\ \A e \in Events : \E f \in DOMAIN schedule : e = StartOf(f) \/ e = EndOf(f)
  BY DEF Events, StartOf, EndOf
<1>4. \A f \in DOMAIN schedule : Before(StartOf(f), EndOf(f))
  BY <1>2 DEF Before, StartOf, EndOf
<1>5. \A e \in Events : e.time \in Nat /\ e.place \in 1 .. 2 * N
  BY <1>1, <1>2, <1>3 DEF StartOf, EndOf
<1>6. \A d, e \in Events : d.place = e.place => d = e
  <2> SUFFICES ASSUME NEW d \in Events, NEW e \in Events, d.place = e.place PROVE d = e
    OBVIOUS
  <2>1. PICK f \in DOMAIN schedule : d = StartOf(f) \/ d = EndOf(f)
    BY <1>3
  <2>2. PICK g \in DOMAIN schedule : e = StartOf(g) \/ e = EndOf(g)
    BY <1>3
  <2>3. f \in Nat /\ g \in Nat
    BY <1>1
  <2>4. /\ StartOf(f).place = 2 * f - 1 /\ StartOf(g).place = 2 * g - 1
        /\ EndOf(f).place = 2 * f /\ EndOf(g).place = 2 * g
    BY DEF StartOf, EndOf
  <2>5. f = g
    BY <2>1, <2>2, <2>3, <2>4
  <2> QED BY <2>1, <2>2, <2>3, <2>4, <2>5
<1> DEFINE place == [e \in Events |-> e.place]
<1>7. place \in Bijection(Events, 1 .. 2 * N)
  <2>1. place \in Injection(Events, 1 .. 2 * N)
    BY <1>5, <1>6 DEF Injection, IsInjective
  <2>2. ASSUME NEW p \in 1 .. 2 * N PROVE \E e \in Events : place[e] = p
    <3>1. PICK f \in 1 .. N : p = 2 * f - 1 \/ p = 2 * f
      <4>1. CASE p % 2 = 0
        <5>1. p = 2 * (p \div 2) /\ p \div 2 \in 1 .. N
          BY <1>1, <4>1
        <5> QED BY <5>1
      <4>2. CASE p % 2 = 1
        <5>1. p = 2 * ((p + 1) \div 2) - 1 /\ (p + 1) \div 2 \in 1 .. N
          BY <1>1, <4>2
        <5> QED BY <5>1
      <4> QED BY <1>1, <4>1, <4>2
    <3>2. /\ StartOf(f) \in Events /\ StartOf(f).place = 2 * f - 1
          /\ EndOf(f) \in Events /\ EndOf(f).place = 2 * f
      BY <1>1, <1>3 DEF StartOf, EndOf
    <3> QED BY <3>1, <3>2
  <2>3. place \in Surjection(Events, 1 .. 2 * N)
    BY <1>5, <2>2 DEF Surjection
  <2> QED BY <2>1, <2>3 DEF Bijection
<1>8. IsFiniteSet(1 .. 2 * N) /\ Cardinality(1 .. 2 * N) = 2 * N
  <2>1. 2 * N \in Nat
    BY <1>1
  <2> QED BY <2>1, FS_Interval
<1> HIDE DEF place
<1>9. IsFiniteSet(Events) /\ Cardinality(Events) = 2 * N
  <2>1. ExistsBijection(Events, 1 .. 2 * N)
    BY <1>7 DEF ExistsBijection
  <2>2. IsFiniteSet(Events)
    BY <1>7, <1>8, FS_Injection DEF Bijection
  <2> QED BY <1>8, <2>1, <2>2, FS_Bijection
<1>10. Queue(Events)
  <2>1. \A e \in Events : e.place \in Nat
    BY <1>1, <1>5
  <2> QED BY <1>5, <1>6, <1>9, <2>1 DEF Queue
<1> QED BY <1>3, <1>4, <1>9, <1>10

-----------------------------------------------------------------------------
(* The invariant of a world under a schedule *)

\* The event has not taken place.
Ahead(e) == fired <= Number(Events, e)

WorldTyped ==
  /\ schedule \in Seq(AnyFault)
  /\ now \in 0 .. HealTime
  /\ fired \in 0 .. 2 * Len(schedule)
  /\ up \in [Node -> BOOLEAN]
  /\ pausedUntil \in [Node -> Nat \cup {None}]
  /\ freezeStart \in [Node -> Nat \cup {None}]
  /\ frozenMs \in [Node -> Int]
  /\ stoodStill \in [Node -> Int]
  /\ crashedBy \in [DOMAIN schedule -> Node \cup {None}]
  /\ pausedBy \in [DOMAIN schedule -> Node \cup {None}]
  /\ DOMAIN partitions = DOMAIN schedule

\* A clock stands still only in a pause, and what is counted, with what has passed since
\* the clock was stopped, is the time for which it has stood still.
ClocksCounted ==
  \A i \in Node :
    IF freezeStart[i] = None THEN frozenMs[i] = stoodStill[i]
    ELSE pausedUntil[i] # None /\ frozenMs[i] + (now - freezeStart[i]) = stoodStill[i]

\* No event is late.
NothingLate == \A e \in Events : Ahead(e) => now <= e.time

\* A fault that has not started has done nothing.
NotBegun ==
  \A f \in DOMAIN schedule :
    Ahead(StartOf(f)) => crashedBy[f] = None /\ pausedBy[f] = None /\ partitions[f] = {}

\* Only a crash takes a node down, and it keeps it down until it ends.
CrashesHold ==
  \A f \in DOMAIN schedule :
    crashedBy[f] # None =>
      schedule[f].kind = "crash" /\ Ahead(EndOf(f)) /\ ~up[crashedBy[f]]

OneHolder ==
  \A f, g \in DOMAIN schedule : crashedBy[f] = crashedBy[g] /\ crashedBy[f] # None => f = g

DownHeld == \A i \in Node : ~up[i] => \E f \in DOMAIN schedule : crashedBy[f] = i

\* A pause and a partition last until they end.
PausesHold ==
  /\ \A f \in DOMAIN schedule :
       pausedBy[f] # None => schedule[f].kind = "pause" /\ Ahead(EndOf(f))
  /\ \A i \in Node : pausedUntil[i] # None => \E f \in DOMAIN schedule : pausedBy[f] = i

CutsHold ==
  \A f \in DOMAIN schedule :
    partitions[f] # {} => schedule[f].kind = "partition" /\ Ahead(EndOf(f))

WorldInv ==
  /\ WorldTyped /\ ClocksCounted /\ NothingLate /\ NotBegun
  /\ CrashesHold /\ OneHolder /\ DownHeld /\ PausesHold /\ CutsHold

\* A world starts with every node awake and every event ahead.
LEMMA WorldBegins ==
  ASSUME NEW faults \in Seq(AnyFault), InitFaults(faults)
  PROVE  WorldInv
<1> USE DEF InitFaults
<1>1. None \notin Node /\ HealTime \in Nat
  BY WorldAssumption DEF Node
<1>2. WorldTyped
  <2>1. schedule \in Seq(AnyFault) /\ DOMAIN schedule = DOMAIN faults /\ Len(schedule) \in Nat
    OBVIOUS
  <2>2. fired \in 0 .. 2 * Len(schedule) /\ now \in 0 .. HealTime
    BY <1>1, <2>1
  <2>3. /\ up \in [Node -> BOOLEAN]
        /\ pausedUntil \in [Node -> Nat \cup {None}]
        /\ freezeStart \in [Node -> Nat \cup {None}]
        /\ frozenMs \in [Node -> Int]
        /\ stoodStill \in [Node -> Int]
    OBVIOUS
  <2>4. /\ crashedBy \in [DOMAIN schedule -> Node \cup {None}]
        /\ pausedBy \in [DOMAIN schedule -> Node \cup {None}]
        /\ DOMAIN partitions = DOMAIN schedule
    OBVIOUS
  <2> QED BY <2>1, <2>2, <2>3, <2>4 DEF WorldTyped
<1>3. NothingLate
  <2>1. \A e \in Events : e.time \in Nat
    BY <1>2, EventsQueue DEF Queue, WorldTyped
  <2> QED BY <2>1 DEF NothingLate
<1>4. ClocksCounted
  BY DEF ClocksCounted
<1>5. NotBegun /\ CrashesHold /\ OneHolder /\ CutsHold
  BY DEF NotBegun, CrashesHold, OneHolder, CutsHold
<1>6. DownHeld /\ PausesHold
  BY DEF DownHeld, PausesHold
<1> QED BY <1>2, <1>3, <1>4, <1>5, <1>6 DEF WorldInv

\* Time passes only when no event is due.
LEMMA PassSoundly ==
  ASSUME WorldInv, Pass
  PROVE  WorldInv'
<1> USE DEF WorldInv, Pass
<1>1. /\ Queue(Events)
      /\ Cardinality(Events) = 2 * Len(schedule)
      /\ \A f \in DOMAIN schedule : StartOf(f) \in Events /\ EndOf(f) \in Events
  BY EventsQueue DEF WorldTyped
<1>2. now \in Nat /\ now' = now + 1 /\ now' \in 0 .. HealTime
  BY WorldAssumption DEF WorldTyped
<1>3. Events' = Events /\ \A e : Ahead(e)' = Ahead(e)
  BY DEF Events, Ahead, Number
<1>4. \A f \in DOMAIN schedule : StartOf(f)' = StartOf(f) /\ EndOf(f)' = EndOf(f)
  BY DEF StartOf, EndOf
<1>5. WorldTyped'
  <2>1. stoodStill' \in [Node -> Int]
    BY DEF WorldTyped
  <2> QED BY <1>2, <2>1 DEF WorldTyped
<1>6. ClocksCounted'
  <2> SUFFICES ASSUME NEW i \in Node
               PROVE  IF freezeStart[i] = None THEN frozenMs[i] = stoodStill'[i]
                      ELSE pausedUntil[i] # None
                           /\ frozenMs[i] + (now' - freezeStart[i]) = stoodStill'[i]
    BY DEF ClocksCounted
  <2>1. /\ frozenMs[i] \in Int /\ stoodStill[i] \in Int
        /\ freezeStart[i] \in Nat \cup {None}
    BY DEF WorldTyped
  <2>2. stoodStill'[i] = IF freezeStart[i] # None /\ pausedUntil[i] # None
                         THEN stoodStill[i] + 1 ELSE stoodStill[i]
    OBVIOUS
  <2> QED BY <1>2, <2>1, <2>2 DEF ClocksCounted
<1>7. NothingLate'
  <2> SUFFICES ASSUME NEW e \in Events, Ahead(e) PROVE now' <= e.time
    BY <1>3 DEF NothingLate
  <2>1. fired \in Nat /\ Number(Events, e) >= fired
    <3>1. fired \in Nat
      BY DEF WorldTyped
    <3>2. Number(Events, e) \in Nat
      BY <1>1, Numbers
    <3> QED BY <3>1, <3>2 DEF Ahead
  <2>2. PICK d \in Events : Number(Events, d) = fired /\ (d = e \/ Before(d, e))
    BY <1>1, <2>1, NoNumberMissing
  <2>3. d.time > now
    BY <2>2 DEF IsNext, Number
  <2>4. d.time \in Nat /\ e.time \in Nat
    BY <1>1 DEF Queue
  <2>5. d.time <= e.time
    BY <2>2, <2>4 DEF Before
  <2> QED BY <1>2, <2>3, <2>4, <2>5
<1>8. NotBegun'
  BY <1>3, <1>4 DEF NotBegun
<1>9. CrashesHold' /\ OneHolder' /\ DownHeld'
  BY <1>3, <1>4 DEF CrashesHold, OneHolder, DownHeld
<1>10. PausesHold' /\ CutsHold'
  BY <1>3, <1>4 DEF PausesHold, CutsHold
<1> QED BY <1>5, <1>6, <1>7, <1>8, <1>9, <1>10

\* What every event does: it is the next one, it is due, and it is over.
Fires(e) ==
  /\ IsNext(e)
  /\ e.time = now
  /\ fired' = fired + 1
  /\ UNCHANGED <<now, schedule, stoodStill>>

\* Of the events ahead, the one that takes place is no longer ahead; no other moves.
LEMMA FireMoves ==
  ASSUME WorldInv, NEW e \in Events, Fires(e)
  PROVE  /\ Ahead(e)
         /\ Events' = Events
         /\ \A d \in Events : Ahead(d)' <=> Ahead(d) /\ d # e
         /\ fired' \in 0 .. 2 * Len(schedule)
         /\ NothingLate'
<1> USE DEF WorldInv, Fires
<1>1. /\ Queue(Events)
      /\ Cardinality(Events) = 2 * Len(schedule)
  BY EventsQueue DEF WorldTyped
<1>2. fired \in Nat /\ fired' = fired + 1
  BY DEF WorldTyped
<1>3. Number(Events, e) = fired
  BY DEF IsNext, Number
<1>4. Events' = Events /\ \A d : Number(Events, d)' = Number(Events, d)
  BY DEF Events, Number
<1>5. \A d \in Events : Ahead(d)' <=> Ahead(d) /\ d # e
  <2> SUFFICES ASSUME NEW d \in Events PROVE Ahead(d)' <=> Ahead(d) /\ d # e
    OBVIOUS
  <2>1. Number(Events, d) \in Nat /\ (Number(Events, d) = Number(Events, e) => d = e)
    BY <1>1, Numbers
  <2>2. Ahead(d)' <=> fired + 1 <= Number(Events, d)
    BY <1>2, <1>4 DEF Ahead
  <2> QED BY <1>2, <1>3, <2>1, <2>2 DEF Ahead
<1>6. Ahead(e)
  BY <1>2, <1>3 DEF Ahead
<1>7. fired' \in 0 .. 2 * Len(schedule)
  <2>1. Number(Events, e) < Cardinality(Events) /\ Cardinality(Events) \in Nat
    BY <1>1, Numbers
  <2> QED BY <1>1, <1>2, <1>3, <2>1
<1>8. NothingLate'
  BY <1>4, <1>5 DEF NothingLate
<1> QED BY <1>4, <1>5, <1>6, <1>7, <1>8

\* What the invariant needs to know of the event that takes place: which faults are not
\* begun, and which are not over, after it.
LEMMA AheadAfter ==
  ASSUME WorldInv, NEW f \in DOMAIN schedule, NEW e \in {StartOf(f), EndOf(f)}, Fires(e)
  PROVE  /\ e \in Events
         /\ Ahead(e)
         /\ \A g \in DOMAIN schedule :
              /\ Ahead(StartOf(g))' => Ahead(StartOf(g)) /\ (e = StartOf(f) => g # f)
              /\ Ahead(EndOf(g)) /\ ~(e = EndOf(f) /\ g = f) => Ahead(EndOf(g))'
         /\ e = StartOf(f) => Ahead(EndOf(f)) /\ Ahead(EndOf(f))'
         /\ schedule[f].kind \in {"crash", "pause", "partition"}
         /\ schedule[f].node \in Node \cup {None}
         /\ schedule[f].end \in Nat
<1> USE DEF WorldInv
<1>1. /\ Queue(Events)
      /\ \A g \in DOMAIN schedule :
           StartOf(g) \in Events /\ EndOf(g) \in Events /\ Before(StartOf(g), EndOf(g))
  BY EventsQueue DEF WorldTyped
<1>2. e \in Events
  BY <1>1
<1>3. /\ Ahead(e)
      /\ \A d \in Events : Ahead(d)' <=> Ahead(d) /\ d # e
  BY <1>2, FireMoves
<1>4. \A g : StartOf(g)' = StartOf(g) /\ EndOf(g)' = EndOf(g)
  BY DEF StartOf, EndOf, Fires
<1>5. \A g \in DOMAIN schedule :
        /\ StartOf(g) # EndOf(f) /\ EndOf(g) # StartOf(f)
        /\ StartOf(g) = StartOf(f) => g = f
        /\ EndOf(g) = EndOf(f) => g = f
  <2> SUFFICES ASSUME NEW g \in DOMAIN schedule
               PROVE  /\ StartOf(g) # EndOf(f) /\ EndOf(g) # StartOf(f)
                      /\ StartOf(g) = StartOf(f) => g = f
                      /\ EndOf(g) = EndOf(f) => g = f
    OBVIOUS
  <2>1. \A h : /\ StartOf(h).what = "start" /\ EndOf(h).what = "end"
               /\ StartOf(h).fault = h /\ EndOf(h).fault = h
    BY DEF StartOf, EndOf
  <2>2. StartOf(g).what # EndOf(f).what /\ EndOf(g).what # StartOf(f).what
    BY <2>1
  <2> QED BY <2>1, <2>2
<1>6. \A g \in DOMAIN schedule :
        /\ Ahead(StartOf(g))' <=> Ahead(StartOf(g)) /\ StartOf(g) # e
        /\ Ahead(EndOf(g))' <=> Ahead(EndOf(g)) /\ EndOf(g) # e
  <2> SUFFICES ASSUME NEW g \in DOMAIN schedule
               PROVE  /\ Ahead(StartOf(g))' <=> Ahead(StartOf(g)) /\ StartOf(g) # e
                      /\ Ahead(EndOf(g))' <=> Ahead(EndOf(g)) /\ EndOf(g) # e
    OBVIOUS
  <2> QED BY <1>1, <1>3, <1>4 DEF Ahead
<1>7. \A g \in DOMAIN schedule :
        /\ Ahead(StartOf(g))' => Ahead(StartOf(g)) /\ (e = StartOf(f) => g # f)
        /\ Ahead(EndOf(g)) /\ ~(e = EndOf(f) /\ g = f) => Ahead(EndOf(g))'
  BY <1>5, <1>6
<1>8. e = StartOf(f) => Ahead(EndOf(f)) /\ Ahead(EndOf(f))'
  <2> SUFFICES ASSUME e = StartOf(f) PROVE Ahead(EndOf(f)) /\ Ahead(EndOf(f))'
    OBVIOUS
  <2>1. /\ Number(Events, e) < Number(Events, EndOf(f))
        /\ Number(Events, e) \in Nat /\ Number(Events, EndOf(f)) \in Nat
    BY <1>1, <1>2, Numbers
  <2>2. fired \in Nat
    BY DEF WorldTyped
  <2>3. Ahead(EndOf(f))
    BY <1>3, <2>1, <2>2 DEF Ahead
  <2> QED BY <1>5, <1>6, <2>3
<1>9. /\ schedule[f].kind \in {"crash", "pause", "partition"}
      /\ schedule[f].node \in Node \cup {None}
      /\ schedule[f].end \in Nat
  <2>1. schedule[f] \in AnyFault
    BY DEF WorldTyped
  <2> QED BY <2>1, FaultKnown
<1> QED BY <1>2, <1>3, <1>7, <1>8, <1>9

\* An event that takes no node down or up leaves to the crashes what they hold.
LEMMA CrashesLast ==
  ASSUME WorldInv, NEW f \in DOMAIN schedule, NEW e \in {StartOf(f), EndOf(f)}, Fires(e),
         e = EndOf(f) => schedule[f].kind # "crash",
         UNCHANGED <<up, crashedBy>>
  PROVE  CrashesHold' /\ OneHolder' /\ DownHeld'
<1>1. \A g \in DOMAIN schedule :
        Ahead(EndOf(g)) /\ ~(e = EndOf(f) /\ g = f) => Ahead(EndOf(g))'
  BY AheadAfter
<1>2. schedule' = schedule
  BY DEF Fires
<1> QED BY <1>1, <1>2 DEF WorldInv, CrashesHold, OneHolder, DownHeld

\* The same of its pauses.
LEMMA PausesLast ==
  ASSUME WorldInv, NEW f \in DOMAIN schedule, NEW e \in {StartOf(f), EndOf(f)}, Fires(e),
         e = EndOf(f) => schedule[f].kind # "pause",
         \A i \in Node : pausedUntil'[i] # None => pausedUntil[i] # None,
         UNCHANGED pausedBy
  PROVE  PausesHold'
<1>1. \A g \in DOMAIN schedule :
        Ahead(EndOf(g)) /\ ~(e = EndOf(f) /\ g = f) => Ahead(EndOf(g))'
  BY AheadAfter
<1>2. schedule' = schedule
  BY DEF Fires
<1> QED BY <1>1, <1>2 DEF WorldInv, PausesHold

\* The same of its partitions.
LEMMA CutsLast ==
  ASSUME WorldInv, NEW f \in DOMAIN schedule, NEW e \in {StartOf(f), EndOf(f)}, Fires(e),
         e = EndOf(f) => schedule[f].kind # "partition",
         UNCHANGED partitions
  PROVE  CutsHold'
<1>1. \A g \in DOMAIN schedule :
        Ahead(EndOf(g)) /\ ~(e = EndOf(f) /\ g = f) => Ahead(EndOf(g))'
  BY AheadAfter
<1>2. schedule' = schedule
  BY DEF Fires
<1> QED BY <1>1, <1>2 DEF WorldInv, CutsHold

\* The clock of i goes on: what it stood still for is counted, once.
LEMMA ThawCounts ==
  ASSUME WorldInv, NEW i \in Node, Thaw(i), UNCHANGED <<now, stoodStill>>,
         pausedUntil' = [pausedUntil EXCEPT ![i] = None]
  PROVE  /\ ClocksCounted'
         /\ pausedUntil' \in [Node -> Nat \cup {None}]
         /\ freezeStart' \in [Node -> Nat \cup {None}]
         /\ frozenMs' \in [Node -> Int]
<1> USE DEF Thaw
<1>1. /\ now \in Nat
      /\ pausedUntil \in [Node -> Nat \cup {None}]
      /\ freezeStart \in [Node -> Nat \cup {None}]
      /\ frozenMs \in [Node -> Int]
      /\ stoodStill \in [Node -> Int]
  BY WorldAssumption DEF WorldInv, WorldTyped
<1>2. None \notin Nat
  BY WorldAssumption
<1>3. /\ pausedUntil' \in [Node -> Nat \cup {None}]
      /\ freezeStart' \in [Node -> Nat \cup {None}]
  BY <1>1
<1>4. frozenMs' \in [Node -> Int]
  <2>1. CASE freezeStart[i] = None
    BY <1>1, <2>1
  <2>2. CASE freezeStart[i] # None
    <3>1. freezeStart[i] \in Nat /\ frozenMs[i] + now - freezeStart[i] \in Int
      BY <1>1, <2>2
    <3> QED BY <1>1, <2>2, <3>1
  <2> QED BY <2>1, <2>2
<1>5. ClocksCounted'
  <2> SUFFICES ASSUME NEW j \in Node
               PROVE  IF freezeStart'[j] = None THEN frozenMs'[j] = stoodStill[j]
                      ELSE pausedUntil'[j] # None
                           /\ frozenMs'[j] + (now - freezeStart'[j]) = stoodStill[j]
    BY DEF ClocksCounted
  <2>1. IF freezeStart[j] = None THEN frozenMs[j] = stoodStill[j]
        ELSE pausedUntil[j] # None /\ frozenMs[j] + (now - freezeStart[j]) = stoodStill[j]
    BY DEF WorldInv, ClocksCounted
  <2>2. CASE j # i
    BY <1>1, <2>1, <2>2
  <2>3. CASE j = i
    <3>1. freezeStart'[i] = None
      BY <1>1
    <3>2. frozenMs'[i] = stoodStill[i]
      <4>1. CASE freezeStart[i] = None
        BY <2>1, <2>3, <4>1
      <4>2. CASE freezeStart[i] # None
        <5>1. freezeStart[i] \in Nat /\ frozenMs[i] \in Int
          BY <1>1, <4>2
        <5>2. frozenMs'[i] = frozenMs[i] + now - freezeStart[i]
          BY <1>1, <4>2
        <5> QED BY <1>1, <2>1, <2>3, <4>2, <5>1, <5>2
      <4> QED BY <4>1, <4>2
    <3> QED BY <2>3, <3>1, <3>2
  <2> QED BY <2>2, <2>3
<1> QED BY <1>3, <1>4, <1>5

\* A crash takes a live node down, which no other crash holds, and ends its pause.
LEMMA CrashSoundly ==
  ASSUME WorldInv, NEW f \in DOMAIN schedule, schedule[f].kind = "crash",
         Fires(StartOf(f)), Crash(f)
  PROVE  WorldInv'
<1> USE DEF WorldInv, Fires
<1>1. None \notin Node
  BY WorldAssumption DEF Node
<1>2. /\ Ahead(StartOf(f)) /\ Ahead(EndOf(f))'
      /\ \A g \in DOMAIN schedule :
           /\ Ahead(StartOf(g))' => Ahead(StartOf(g)) /\ g # f
           /\ Ahead(EndOf(g)) => Ahead(EndOf(g))'
      /\ StartOf(f) \in Events
      /\ schedule[f].node \in Node \cup {None}
  <2>1. StartOf(f) # EndOf(f)
    BY DEF StartOf, EndOf
  <2> QED BY <2>1, AheadAfter
<1>3. NothingLate' /\ fired' \in 0 .. 2 * Len(schedule)
  BY <1>2, FireMoves
<1>4. CutsHold'
  <2>1. UNCHANGED partitions
    BY DEF Crash
  <2>2. StartOf(f) # EndOf(f)
    BY DEF StartOf, EndOf
  <2> QED BY <2>1, <2>2, CutsLast
<1>5. PICK i \in Victims(f) :
        IF ~MayCrash(i)
        THEN UNCHANGED <<up, crashedBy, pausedUntil, freezeStart, frozenMs>>
        ELSE /\ EndPause(i)
             /\ crashedBy' = [crashedBy EXCEPT ![f] = i]
             /\ up' = [up EXCEPT ![i] = FALSE]
  BY DEF Crash
<1>6. pausedBy' = pausedBy /\ partitions' = partitions
  BY DEF Crash
<1>7. CASE ~MayCrash(i)
  <2>1. UNCHANGED <<up, crashedBy, pausedUntil, freezeStart, frozenMs>>
    BY <1>5, <1>7
  <2>2. WorldTyped'
    BY <1>3, <1>6, <2>1 DEF WorldTyped
  <2>3. ClocksCounted'
    BY <2>1 DEF ClocksCounted
  <2>4. NotBegun'
    BY <1>2, <1>6, <2>1 DEF NotBegun, StartOf
  <2>5. CrashesHold' /\ OneHolder' /\ DownHeld'
    BY <1>2, <2>1 DEF CrashesHold, OneHolder, DownHeld, EndOf
  <2>6. PausesHold'
    BY <1>2, <1>6, <2>1 DEF PausesHold, EndOf
  <2> QED BY <1>3, <1>4, <2>2, <2>3, <2>4, <2>5, <2>6
<1>8. CASE MayCrash(i)
  <2>1. /\ EndPause(i)
        /\ crashedBy' = [crashedBy EXCEPT ![f] = i]
        /\ up' = [up EXCEPT ![i] = FALSE]
    BY <1>5, <1>8
  <2>2. i \in Node /\ up[i]
    BY <1>2, <1>8 DEF MayCrash, Victims, CurrentLeader
  <2>3. pausedUntil' = [pausedUntil EXCEPT ![i] = None] /\ Thaw(i)
    BY <2>1 DEF EndPause
  <2>4. /\ ClocksCounted'
        /\ pausedUntil' \in [Node -> Nat \cup {None}]
        /\ freezeStart' \in [Node -> Nat \cup {None}]
        /\ frozenMs' \in [Node -> Int]
    BY <2>2, <2>3, ThawCounts
  <2>5. WorldTyped'
    <3>1. up' \in [Node -> BOOLEAN] /\ crashedBy' \in [DOMAIN schedule -> Node \cup {None}]
      BY <2>1, <2>2 DEF WorldTyped
    <3> QED BY <1>3, <1>6, <2>4, <3>1 DEF WorldTyped
  <2>6. /\ crashedBy[f] = None
        /\ \A g \in DOMAIN schedule : crashedBy[g] # i
    BY <1>1, <1>2, <2>2 DEF NotBegun, CrashesHold
  <2>7. \A g \in DOMAIN schedule : crashedBy'[g] = IF g = f THEN i ELSE crashedBy[g]
    BY <2>1 DEF WorldTyped
  <2>8. \A j \in Node : up'[j] = (up[j] /\ j # i)
    BY <2>1, <2>2 DEF WorldTyped
  <2>9. NotBegun'
    BY <1>2, <1>6, <2>7 DEF NotBegun, StartOf
  <2>10. CrashesHold'
    <3>1. \A g \in DOMAIN schedule : crashedBy[g] \in Node \cup {None}
      BY DEF WorldTyped
    <3> QED BY <1>2, <2>2, <2>7, <2>8, <3>1 DEF CrashesHold, EndOf
  <2>11. OneHolder'
    BY <2>6, <2>7 DEF OneHolder
  <2>12. DownHeld'
    <3> SUFFICES ASSUME NEW j \in Node, ~up'[j]
                 PROVE  \E g \in DOMAIN schedule : crashedBy'[g] = j
      BY DEF DownHeld
    <3>1. CASE j = i
      BY <2>7, <3>1
    <3>2. CASE j # i
      <4>1. PICK g \in DOMAIN schedule : crashedBy[g] = j
        BY <2>8, <3>2 DEF DownHeld
      <4>2. g # f
        BY <1>1, <2>6, <4>1
      <4> QED BY <2>7, <4>1, <4>2
    <3> QED BY <3>1, <3>2
  <2>13. PausesHold'
    <3>1. \A j \in Node : pausedUntil'[j] # None => pausedUntil[j] # None
      BY <2>3 DEF WorldTyped
    <3> QED BY <1>2, <1>6, <3>1 DEF PausesHold, EndOf
  <2> QED BY <1>3, <1>4, <2>4, <2>5, <2>9, <2>10, <2>11, <2>12, <2>13
<1> QED BY <1>7, <1>8

\* A restart brings up the node that its own fault took down, and no other.
LEMMA RestartSoundly ==
  ASSUME WorldInv, NEW f \in DOMAIN schedule, schedule[f].kind = "crash",
         Fires(EndOf(f)), Restart(f)
  PROVE  WorldInv'
<1> USE DEF WorldInv, Fires, Restart
<1>1. None \notin Node
  BY WorldAssumption DEF Node
<1>2. /\ \A g \in DOMAIN schedule :
           /\ Ahead(StartOf(g))' => Ahead(StartOf(g))
           /\ Ahead(EndOf(g)) /\ g # f => Ahead(EndOf(g))'
      /\ EndOf(f) \in Events
  BY AheadAfter
<1>3. NothingLate' /\ fired' \in 0 .. 2 * Len(schedule)
  BY <1>2, FireMoves
<1>4. CutsHold'
  BY CutsLast
<1>5. PausesHold'
  BY PausesLast
<1>6. ClocksCounted'
  BY DEF ClocksCounted
<1>7. \A g \in DOMAIN schedule :
        /\ crashedBy[g] \in Node \cup {None}
        /\ crashedBy'[g] = IF g = f THEN None ELSE crashedBy[g]
  BY DEF WorldTyped
<1>8. \A j \in Node : up'[j] = (up[j] \/ j = crashedBy[f])
  BY <1>1, <1>7 DEF WorldTyped
<1>9. WorldTyped'
  <2>1. up' \in [Node -> BOOLEAN] /\ crashedBy' \in [DOMAIN schedule -> Node \cup {None}]
    BY <1>7 DEF WorldTyped
  <2> QED BY <1>3, <2>1 DEF WorldTyped
<1>10. NotBegun'
  BY <1>2, <1>7 DEF NotBegun, StartOf
<1>11. CrashesHold'
  <2> SUFFICES ASSUME NEW g \in DOMAIN schedule, crashedBy'[g] # None
               PROVE  schedule[g].kind = "crash" /\ Ahead(EndOf(g))' /\ ~up'[crashedBy'[g]]
    BY DEF CrashesHold, EndOf
  <2>1. g # f /\ crashedBy'[g] = crashedBy[g] /\ crashedBy[g] \in Node
    BY <1>7
  <2>2. schedule[g].kind = "crash" /\ Ahead(EndOf(g)) /\ ~up[crashedBy[g]]
    BY <2>1 DEF CrashesHold
  <2>3. crashedBy[g] # crashedBy[f]
    BY <2>1 DEF OneHolder
  <2> QED BY <1>2, <1>8, <2>1, <2>2, <2>3
<1>12. OneHolder'
  BY <1>7 DEF OneHolder
<1>13. DownHeld'
  <2> SUFFICES ASSUME NEW j \in Node, ~up'[j]
               PROVE  \E g \in DOMAIN schedule : crashedBy'[g] = j
    BY DEF DownHeld
  <2>1. ~up[j] /\ j # crashedBy[f]
    BY <1>8
  <2>2. PICK g \in DOMAIN schedule : crashedBy[g] = j
    BY <2>1 DEF DownHeld
  <2> QED BY <1>7, <2>1, <2>2
<1> QED BY <1>3, <1>4, <1>5, <1>6, <1>9, <1>10, <1>11, <1>12, <1>13

\* A pause begins for a node that is awake, whose clock then goes.
LEMMA PauseSoundly ==
  ASSUME WorldInv, NEW f \in DOMAIN schedule, schedule[f].kind = "pause",
         Fires(StartOf(f)), Pause(f)
  PROVE  WorldInv'
<1> USE DEF WorldInv, Fires
<1>1. None \notin Node /\ None \notin Nat /\ now \in Nat
  BY WorldAssumption DEF Node, WorldTyped
<1>2. /\ Ahead(StartOf(f)) /\ Ahead(EndOf(f))'
      /\ \A g \in DOMAIN schedule :
           /\ Ahead(StartOf(g))' => Ahead(StartOf(g)) /\ g # f
           /\ Ahead(EndOf(g)) => Ahead(EndOf(g))'
      /\ StartOf(f) \in Events
      /\ schedule[f].node \in Node \cup {None}
      /\ schedule[f].end \in Nat
  <2>1. StartOf(f) # EndOf(f)
    BY DEF StartOf, EndOf
  <2> QED BY <2>1, AheadAfter
<1>3. NothingLate' /\ fired' \in 0 .. 2 * Len(schedule)
  BY <1>2, FireMoves
<1>4. up' = up /\ frozenMs' = frozenMs /\ crashedBy' = crashedBy /\ partitions' = partitions
  BY DEF Pause
<1>5. CutsHold' /\ CrashesHold' /\ OneHolder' /\ DownHeld'
  <2>1. StartOf(f) # EndOf(f)
    BY DEF StartOf, EndOf
  <2> QED BY <1>4, <2>1, CutsLast, CrashesLast
<1>6. PICK i \in Victims(f) :
        IF i = None \/ ~up[i] \/ pausedUntil[i] # None
        THEN UNCHANGED <<pausedBy, pausedUntil, freezeStart>>
        ELSE /\ pausedBy' = [pausedBy EXCEPT ![f] = i]
             /\ pausedUntil' = [pausedUntil EXCEPT ![i] = schedule[f].end]
             /\ freezeStart' = IF schedule[f].freeze
                               THEN [freezeStart EXCEPT ![i] = now] ELSE freezeStart
  BY DEF Pause
<1>7. CASE i = None \/ ~up[i] \/ pausedUntil[i] # None
  <2>1. UNCHANGED <<pausedBy, pausedUntil, freezeStart>>
    BY <1>6, <1>7
  <2>2. WorldTyped'
    BY <1>3, <1>4, <2>1 DEF WorldTyped
  <2>3. ClocksCounted'
    BY <1>4, <2>1 DEF ClocksCounted
  <2>4. NotBegun'
    BY <1>2, <1>4, <2>1 DEF NotBegun, StartOf
  <2>5. PausesHold'
    BY <1>2, <2>1 DEF PausesHold, EndOf
  <2> QED BY <1>3, <1>5, <2>2, <2>3, <2>4, <2>5
<1>8. CASE ~(i = None \/ ~up[i] \/ pausedUntil[i] # None)
  <2>1. /\ pausedBy' = [pausedBy EXCEPT ![f] = i]
        /\ pausedUntil' = [pausedUntil EXCEPT ![i] = schedule[f].end]
        /\ freezeStart' = IF schedule[f].freeze
                          THEN [freezeStart EXCEPT ![i] = now] ELSE freezeStart
    BY <1>6, <1>8
  <2>2. i \in Node /\ pausedUntil[i] = None
    BY <1>2, <1>8 DEF Victims, CurrentLeader
  <2>3. WorldTyped'
    <3>1. pausedUntil' \in [Node -> Nat \cup {None}]
      BY <1>2, <2>1 DEF WorldTyped
    <3>2. pausedBy' \in [DOMAIN schedule -> Node \cup {None}]
      BY <2>1, <2>2 DEF WorldTyped
    <3>3. freezeStart' \in [Node -> Nat \cup {None}]
      BY <1>1, <2>1 DEF WorldTyped
    <3> QED BY <1>3, <1>4, <3>1, <3>2, <3>3 DEF WorldTyped
  <2>4. ClocksCounted'
    <3> SUFFICES ASSUME NEW j \in Node
                 PROVE  IF freezeStart'[j] = None THEN frozenMs[j] = stoodStill[j]
                        ELSE pausedUntil'[j] # None
                             /\ frozenMs[j] + (now - freezeStart'[j]) = stoodStill[j]
      BY <1>4 DEF ClocksCounted
    <3>1. IF freezeStart[j] = None THEN frozenMs[j] = stoodStill[j]
          ELSE pausedUntil[j] # None /\ frozenMs[j] + (now - freezeStart[j]) = stoodStill[j]
      BY DEF ClocksCounted
    <3>2. frozenMs[j] \in Int
      BY DEF WorldTyped
    <3>3. CASE j # i
      <4>1. freezeStart'[j] = freezeStart[j] /\ pausedUntil'[j] = pausedUntil[j]
        BY <2>1, <2>2, <3>3 DEF WorldTyped
      <4> QED BY <3>1, <4>1
    <3>4. CASE j = i
      <4>1. freezeStart[j] = None /\ frozenMs[j] = stoodStill[j]
        BY <2>2, <3>1, <3>4
      <4>2. freezeStart'[j] = (IF schedule[f].freeze THEN now ELSE None)
        BY <2>1, <3>4, <4>1 DEF WorldTyped
      <4>3. pausedUntil'[j] # None
        BY <1>1, <1>2, <2>1, <3>4 DEF WorldTyped
      <4> QED BY <1>1, <3>2, <4>1, <4>2, <4>3
    <3> QED BY <3>3, <3>4
  <2>5. \A g \in DOMAIN schedule : pausedBy'[g] = IF g = f THEN i ELSE pausedBy[g]
    BY <2>1 DEF WorldTyped
  <2>6. NotBegun'
    BY <1>2, <1>4, <2>5 DEF NotBegun, StartOf
  <2>7. PausesHold'
    <3>1. \A g \in DOMAIN schedule :
            pausedBy'[g] # None => schedule[g].kind = "pause" /\ Ahead(EndOf(g))'
      BY <1>2, <2>5 DEF PausesHold
    <3>2. ASSUME NEW j \in Node, pausedUntil'[j] # None
          PROVE  \E g \in DOMAIN schedule : pausedBy'[g] = j
      <4>1. CASE j = i
        BY <2>5, <4>1
      <4>2. CASE j # i
        <5>1. pausedUntil[j] # None
          BY <2>1, <3>2, <4>2 DEF WorldTyped
        <5>2. PICK g \in DOMAIN schedule : pausedBy[g] = j
          BY <5>1 DEF PausesHold
        <5>3. g # f
          BY <1>1, <1>2, <5>2 DEF NotBegun
        <5> QED BY <2>5, <5>2, <5>3
      <4> QED BY <4>1, <4>2
    <3> QED BY <3>1, <3>2 DEF PausesHold, EndOf
  <2> QED BY <1>3, <1>5, <2>3, <2>4, <2>6, <2>7
<1> QED BY <1>7, <1>8

\* A resume ends the pause of its node, or one that began since, and counts its time.
LEMMA ResumeSoundly ==
  ASSUME WorldInv, NEW f \in DOMAIN schedule, schedule[f].kind = "pause",
         Fires(EndOf(f)), Resume(f)
  PROVE  WorldInv'
<1> USE DEF WorldInv, Fires
<1>1. None \notin Node
  BY WorldAssumption DEF Node
<1>2. /\ \A g \in DOMAIN schedule :
           /\ Ahead(StartOf(g))' => Ahead(StartOf(g))
           /\ Ahead(EndOf(g)) /\ g # f => Ahead(EndOf(g))'
      /\ EndOf(f) \in Events
  BY AheadAfter
<1>3. NothingLate' /\ fired' \in 0 .. 2 * Len(schedule)
  BY <1>2, FireMoves
<1>4. /\ up' = up /\ crashedBy' = crashedBy /\ partitions' = partitions
      /\ pausedBy' = [pausedBy EXCEPT ![f] = None]
  BY DEF Resume
<1>5. CutsHold' /\ CrashesHold' /\ OneHolder' /\ DownHeld'
  BY <1>4, CutsLast, CrashesLast
<1>6. \A g \in DOMAIN schedule :
        /\ pausedBy[g] \in Node \cup {None}
        /\ pausedBy'[g] = IF g = f THEN None ELSE pausedBy[g]
  BY <1>4 DEF WorldTyped
<1>7. /\ ClocksCounted'
      /\ pausedUntil' \in [Node -> Nat \cup {None}]
      /\ freezeStart' \in [Node -> Nat \cup {None}]
      /\ frozenMs' \in [Node -> Int]
      /\ \A j \in Node : pausedUntil'[j] # None => pausedUntil[j] # None /\ j # pausedBy[f]
  <2>1. CASE pausedBy[f] = None
    <3>1. UNCHANGED <<pausedUntil, freezeStart, frozenMs>>
      BY <2>1 DEF Resume
    <3> QED BY <1>1, <2>1, <3>1 DEF WorldTyped, ClocksCounted
  <2>2. CASE pausedBy[f] # None
    <3>1. /\ pausedBy[f] \in Node
          /\ pausedUntil' = [pausedUntil EXCEPT ![pausedBy[f]] = None]
          /\ Thaw(pausedBy[f])
      BY <1>6, <2>2 DEF Resume
    <3>2. /\ ClocksCounted'
          /\ pausedUntil' \in [Node -> Nat \cup {None}]
          /\ freezeStart' \in [Node -> Nat \cup {None}]
          /\ frozenMs' \in [Node -> Int]
      BY <3>1, ThawCounts
    <3> QED BY <3>1, <3>2 DEF WorldTyped
  <2> QED BY <2>1, <2>2
<1>8. WorldTyped'
  <2>1. pausedBy' \in [DOMAIN schedule -> Node \cup {None}]
    BY <1>4 DEF WorldTyped
  <2> QED BY <1>3, <1>4, <1>7, <2>1 DEF WorldTyped
<1>9. NotBegun'
  BY <1>2, <1>4, <1>6 DEF NotBegun, StartOf
<1>10. PausesHold'
  <2>1. \A g \in DOMAIN schedule :
          pausedBy'[g] # None => schedule[g].kind = "pause" /\ Ahead(EndOf(g))'
    BY <1>2, <1>6 DEF PausesHold
  <2>2. \A j \in Node :
          pausedUntil'[j] # None => \E g \in DOMAIN schedule : pausedBy'[g] = j
    BY <1>6, <1>7 DEF PausesHold
  <2> QED BY <2>1, <2>2 DEF PausesHold, EndOf
<1> QED BY <1>3, <1>5, <1>7, <1>8, <1>9, <1>10

\* A partition is there from its start to its end.
LEMMA CutSoundly ==
  ASSUME WorldInv, NEW f \in DOMAIN schedule, schedule[f].kind = "partition",
         (Fires(StartOf(f)) /\ Cut(f)) \/ (Fires(EndOf(f)) /\ Heal(f))
  PROVE  WorldInv'
<1> USE DEF WorldInv, Fires
<1>1. UNCHANGED <<up, pausedUntil, freezeStart, frozenMs, crashedBy, pausedBy>>
  BY DEF Cut, Heal
<1>2. StartOf(f) # EndOf(f)
  BY DEF StartOf, EndOf
<1>3. PICK e \in {StartOf(f), EndOf(f)} :
        \/ e = StartOf(f) /\ Fires(e) /\ Cut(f)
        \/ e = EndOf(f) /\ Fires(e) /\ Heal(f)
  OBVIOUS
<1>4. /\ \A g \in DOMAIN schedule :
           /\ Ahead(StartOf(g))' => Ahead(StartOf(g)) /\ (e = StartOf(f) => g # f)
           /\ Ahead(EndOf(g)) /\ ~(e = EndOf(f) /\ g = f) => Ahead(EndOf(g))'
      /\ e = StartOf(f) => Ahead(EndOf(f))'
      /\ e \in Events
  BY <1>3, AheadAfter
<1>5. NothingLate' /\ fired' \in 0 .. 2 * Len(schedule)
  BY <1>3, <1>4, FireMoves
<1>6. CrashesHold' /\ OneHolder' /\ DownHeld' /\ PausesHold'
  BY <1>1, <1>3, CrashesLast, PausesLast
<1>7. /\ DOMAIN partitions' = DOMAIN schedule
      /\ \A g \in DOMAIN schedule : g # f => partitions'[g] = partitions[g]
      /\ e = EndOf(f) => partitions'[f] = {}
  BY <1>2, <1>3 DEF Cut, Heal, WorldTyped
<1>8. WorldTyped'
  BY <1>1, <1>5, <1>7 DEF WorldTyped
<1>9. ClocksCounted'
  BY <1>1 DEF ClocksCounted
<1>10. schedule' = schedule
  BY <1>3
<1>11. CutsHold'
  BY <1>3, <1>4, <1>7, <1>10 DEF CutsHold, EndOf
<1>12. NotBegun'
  <2> SUFFICES ASSUME NEW g \in DOMAIN schedule, Ahead(StartOf(g))'
               PROVE  crashedBy[g] = None /\ pausedBy[g] = None /\ partitions'[g] = {}
    BY <1>1, <1>10 DEF NotBegun, StartOf
  <2>1. crashedBy[g] = None /\ pausedBy[g] = None /\ partitions[g] = {}
    BY <1>4 DEF NotBegun
  <2> QED BY <1>2, <1>3, <1>4, <1>7, <2>1
<1> QED BY <1>5, <1>6, <1>8, <1>9, <1>11, <1>12

\* The next event, whatever it is, keeps the invariant.
LEMMA FireSoundly ==
  ASSUME WorldInv, NEW e \in Events, Fire(e)
  PROVE  WorldInv'
<1>1. PICK f \in DOMAIN schedule : e = StartOf(f) \/ e = EndOf(f)
  BY EventsQueue DEF WorldInv, WorldTyped
<1>2. /\ e.fault = f
      /\ e.what = "start" => e = StartOf(f)
      /\ e.what = "end" => e = EndOf(f)
  BY <1>1 DEF StartOf, EndOf
<1>3. Fires(e)
  BY DEF Fire, Fires
<1>4. \/ schedule[f].kind = "crash" /\ e = StartOf(f) /\ Crash(f)
      \/ schedule[f].kind = "crash" /\ e = EndOf(f) /\ Restart(f)
      \/ schedule[f].kind = "pause" /\ e = StartOf(f) /\ Pause(f)
      \/ schedule[f].kind = "pause" /\ e = EndOf(f) /\ Resume(f)
      \/ schedule[f].kind = "partition" /\ e = StartOf(f) /\ Cut(f)
      \/ schedule[f].kind = "partition" /\ e = EndOf(f) /\ Heal(f)
  BY <1>2 DEF Fire
<1>5. CASE schedule[f].kind = "crash" /\ e = StartOf(f) /\ Crash(f)
  BY <1>3, <1>5, CrashSoundly
<1>6. CASE schedule[f].kind = "crash" /\ e = EndOf(f) /\ Restart(f)
  BY <1>3, <1>6, RestartSoundly
<1>7. CASE schedule[f].kind = "pause" /\ e = StartOf(f) /\ Pause(f)
  BY <1>3, <1>7, PauseSoundly
<1>8. CASE schedule[f].kind = "pause" /\ e = EndOf(f) /\ Resume(f)
  BY <1>3, <1>8, ResumeSoundly
<1>9. CASE schedule[f].kind = "partition" /\ e = StartOf(f) /\ Cut(f)
  BY <1>3, <1>9, CutSoundly
<1>10. CASE schedule[f].kind = "partition" /\ e = EndOf(f) /\ Heal(f)
  BY <1>3, <1>10, CutSoundly
<1> QED BY <1>4, <1>5, <1>6, <1>7, <1>8, <1>9, <1>10

\* The invariant of a world, under every schedule that generate may draw (Simulator.run,
\* _bootstrap, ev_crash ... ev_part_end).
THEOREM WorldInvariance == SpecFaults => []WorldInv
<1>1. (\E faults \in Seq(AnyFault) : InOrder(faults) /\ InitFaults(faults)) => WorldInv
  BY WorldBegins
<1>2. WorldInv /\ [NextFaults]_faultsVars => WorldInv'
  <2> SUFFICES ASSUME WorldInv, [NextFaults]_faultsVars PROVE WorldInv'
    OBVIOUS
  <2>1. CASE Pass
    BY <2>1, PassSoundly
  <2>2. CASE \E e \in Events : Fire(e)
    BY <2>2, FireSoundly
  <2>3. CASE UNCHANGED faultsVars
    <3> USE <2>3 DEF faultsVars
    <3>1. WorldTyped' /\ ClocksCounted'
      BY DEF WorldInv, WorldTyped, ClocksCounted
    <3>2. Events' = Events /\ \A d : Ahead(d)' = Ahead(d)
      BY DEF Events, Ahead, Number
    <3>3. NothingLate' /\ NotBegun' /\ CutsHold'
      BY <3>2 DEF WorldInv, NothingLate, NotBegun, CutsHold, StartOf, EndOf
    <3>4. CrashesHold' /\ OneHolder' /\ DownHeld' /\ PausesHold'
      BY <3>2 DEF WorldInv, CrashesHold, OneHolder, DownHeld, PausesHold, EndOf
    <3> QED BY <3>1, <3>3, <3>4 DEF WorldInv
  <2> QED BY <2>1, <2>2, <2>3 DEF NextFaults
<1> QED BY <1>1, <1>2, PTL DEF SpecFaults

\* The clock of an awake node (node_now) is behind by just the time that it has stood
\* still, whatever pauses and crashes have overlapped.
THEOREM ClocksHonest == SpecFaults => []ClockHonest
<1>1. WorldInv => ClockHonest
  BY DEF WorldInv, ClocksCounted, ClockHonest, Awake
<1> QED BY <1>1, WorldInvariance, PTL

\* A node is down exactly while one crash, which has not ended, holds it down
\* (ev_crash, ev_restart).
THEOREM HeldDown == SpecFaults => []HeldDownByOne
<1>1. ASSUME WorldInv PROVE HeldDownByOne
  <2> USE <1>1 DEF WorldInv
  <2> SUFFICES ASSUME NEW i \in Node
               PROVE  LET holders == {f \in DOMAIN crashedBy : crashedBy[f] = i}
                      IN /\ up[i] = (holders = {})
                         /\ Cardinality(holders) <= 1
                         /\ \A f \in holders : now <= schedule[f].end
    BY DEF HeldDownByOne
  <2> DEFINE holders == {f \in DOMAIN crashedBy : crashedBy[f] = i}
  <2>1. DOMAIN crashedBy = DOMAIN schedule /\ up[i] \in BOOLEAN /\ i # None
    BY WorldAssumption DEF WorldTyped, Node
  <2>2. \A f \in holders : Ahead(EndOf(f)) /\ ~up[i]
    BY <2>1 DEF CrashesHold
  <2>3. up[i] = (holders = {})
    BY <2>1, <2>2 DEF DownHeld
  <2>4. Cardinality(holders) <= 1
    <3>1. CASE holders = {}
      BY <3>1, FS_EmptySet
    <3>2. CASE holders # {}
      <4>1. PICK f : f \in holders
        BY <3>2
      <4>2. holders = {f}
        BY <2>1, <4>1 DEF OneHolder
      <4> QED BY <4>2, FS_Singleton
    <3> QED BY <3>1, <3>2
  <2>5. \A f \in holders : now <= schedule[f].end
    <3> SUFFICES ASSUME NEW f \in holders PROVE now <= schedule[f].end
      OBVIOUS
    <3>1. EndOf(f) \in Events
      BY <2>1, EventsQueue DEF WorldTyped
    <3>2. now <= EndOf(f).time
      BY <2>2, <3>1 DEF NothingLate
    <3> QED BY <3>2 DEF EndOf
  <2> QED BY <2>3, <2>4, <2>5
<1> QED BY <1>1, WorldInvariance, PTL

\* When the heal time comes and its events have taken place, nothing is ahead: all nodes
\* are awake and reach one another, whichever faults overlapped (heal_time).
THEOREM Healed == SpecFaults => []HealedInTime
<1>1. ASSUME WorldInv PROVE HealedInTime
  <2> USE <1>1 DEF WorldInv
  <2> SUFFICES ASSUME now = HealTime, \A e \in Events : IsNext(e) => e.time > now
               PROVE  /\ fired = 2 * Len(schedule)
                      /\ \A i, j \in Node : Awake(i) /\ ~Blocked(i, j)
    BY DEF HealedInTime
  <2>1. /\ Queue(Events)
        /\ Cardinality(Events) = 2 * Len(schedule)
        /\ \A f \in DOMAIN schedule : StartOf(f) \in Events /\ EndOf(f) \in Events
        /\ \A e \in Events : \E f \in DOMAIN schedule : e = StartOf(f) \/ e = EndOf(f)
    BY EventsQueue DEF WorldTyped
  <2>2. fired \in Nat /\ Len(schedule) \in Nat /\ fired <= 2 * Len(schedule) /\ HealTime \in Nat
    BY WorldAssumption DEF WorldTyped
  <2>3. \A e \in Events : Number(Events, e) \in Nat /\ e.time \in Nat
    BY <2>1, Numbers DEF Queue
  <2>4. \A e \in Events : e.time <= HealTime
    <3> SUFFICES ASSUME NEW e \in Events PROVE e.time <= HealTime
      OBVIOUS
    <3>1. PICK f \in DOMAIN schedule : e = StartOf(f) \/ e = EndOf(f)
      BY <2>1
    <3>2. schedule[f] \in AnyFault
      BY DEF WorldTyped
    <3>3. /\ schedule[f].start \in Nat /\ schedule[f].end \in Nat
          /\ schedule[f].start < schedule[f].end /\ schedule[f].end <= HealTime
      BY <3>2, FaultKnown
    <3> QED BY <2>2, <3>1, <3>3 DEF StartOf, EndOf
  <2>5. \A e \in Events : ~Ahead(e)
    <3> SUFFICES ASSUME NEW e \in Events, Ahead(e) PROVE FALSE
      OBVIOUS
    <3>1. Number(Events, e) >= fired
      BY <2>2, <2>3 DEF Ahead
    <3>2. PICK d \in Events : Number(Events, d) = fired
      BY <2>1, <2>2, <3>1, NoNumberMissing
    <3>3. d.time > now
      BY <3>2 DEF IsNext, Number
    <3> QED BY <2>2, <2>3, <2>4, <3>3
  <2>6. fired = 2 * Len(schedule)
    <3> DEFINE num == [e \in Events |-> Number(Events, e)]
    <3>1. num \in Injection(Events, 0 .. fired - 1)
      <4>1. \A e \in Events : Number(Events, e) \in 0 .. fired - 1
        BY <2>2, <2>3, <2>5 DEF Ahead
      <4>2. \A d, e \in Events : Number(Events, d) = Number(Events, e) => d = e
        BY <2>1, Numbers
      <4> QED BY <4>1, <4>2 DEF Injection, IsInjective
    <3>2. IsFiniteSet(0 .. fired - 1) /\ Cardinality(0 .. fired - 1) = fired
      <4>1. fired - 1 \in Int /\ 0 \in Int
        BY <2>2
      <4>2. /\ IsFiniteSet(0 .. fired - 1)
            /\ Cardinality(0 .. fired - 1) = IF 0 > fired - 1 THEN 0 ELSE fired - 1 - 0 + 1
        BY <4>1, FS_Interval
      <4> QED BY <2>2, <4>2
    <3> HIDE DEF num
    <3>3. Cardinality(Events) <= fired
      BY <3>1, <3>2, FS_Injection
    <3> QED BY <2>1, <2>2, <3>3
  <2>7. \A f \in DOMAIN schedule :
          crashedBy[f] = None /\ pausedBy[f] = None /\ partitions[f] = {}
    BY <2>1, <2>5 DEF CrashesHold, PausesHold, CutsHold
  <2>8. \A i \in Node : Awake(i)
    <3>1. None \notin Node
      BY WorldAssumption DEF Node
    <3> QED BY <2>7, <3>1 DEF DownHeld, PausesHold, Awake
  <2>9. \A i, j \in Node : ~Blocked(i, j)
    BY <2>7 DEF Blocked, WorldTyped
  <2> QED BY <2>6, <2>8, <2>9
<1> QED BY <1>1, WorldInvariance, PTL

=============================================================================
