\* Two clients and two replicas, and all histories of three operations.
CONSTANTS
  Nil = Nil
  True = True
  False = False
  Client = {0, 1}
  Key = {0, 1}
  Replica = {r1, r2}
  OpMix = {"get", "cas", "append"}
  Guesses = {}
  UsedKeys = {0}
  SnapshotThreshold = 1
  MaxOps = 3
  MaxLog = 3
  MaxRestarts = 1
  Budgets = {1, 1000}
  Recorded = 3
  LastTime = 2
SPECIFICATION SpecHistories
SYMMETRY ReplicaSymmetry
\* The run ends with a verdict.
CHECK_DEADLOCK FALSE
INVARIANTS
  ServiceLinearizable
  VerdictRight
  SearchConsistent
