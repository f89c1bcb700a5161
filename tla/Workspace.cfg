SPECIFICATION Spec
CONSTANTS
  Registry <- BuiltIn
  Profiles <- FrozenCatalog
  ProjectIds = {1, 2, 3}
  Names = {"a", "b", "c"}
  Requests = {"p1", "p2", "c", "r", "s"}
  Callers = {"a", "b"}
  Commands <- MCCommands
  Clock = {1, 3}
  PageLimit = 1
  Scenarios <- MCScenarios
  Waits <- MCWaits
INVARIANTS OneEffectPerRequest ListIsComplete SavedIsShown
PROPERTIES BarrierSaves RunIsWhatWasShown EditsReachTheStore
CHECK_DEADLOCK FALSE
