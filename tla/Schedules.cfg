\* Two or three faults of a small world, or a schedule of three faults to shrink.
SPECIFICATION SpecSchedules
CONSTANTS
  NNodes = 3
  HealTime = 4
  MaxLength = 3
  MaxStart = 2
  None = None
  NFaults = 3
  NClients = 3
  Duration = 4
  Slacks <- SlackValues
  Kinds = {"NoProgress", "Violation"}
INVARIANTS
  HealedInTime
  ClockHonest
  HeldDownByOne
  StillFails
  OneMinimal
PROPERTIES
  ShrinkEnds
\* The time to heal, and the shrinker, come to an end.
CHECK_DEADLOCK FALSE
