SPECIFICATION MCSpec
CONSTANTS
  Conns = {"c1", "c2", "c3", "c4"}
  Tasks = {"t1", "t2"}
  Handlers = {h1, h2}
  MasterKeys = {"k1", "k2"}
  ConnInputs <- MCConnInputs
  ConnPatches <- MCConnPatches
  TaskInputs <- MCTaskInputs
  TaskPatches <- MCTaskPatches
  Redis <- MCRedis
  Faults = {"target_write"}
  MaxRequests = 4
  MaxStarts = 2
SYMMETRY Symmetry
CHECK_DEADLOCK FALSE
INVARIANTS
  ReadyWasChecked
  StoredSecretsOpen
  SecretsWhereTheyBelong
PROPERTIES
  RunsStartChecked
  NoLostTaskEdit
