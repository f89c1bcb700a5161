SPECIFICATION Spec
CONSTANTS
  Registry <- Contracts
  Profiles <- FrozenCatalog
  Creations = {"create", "create2"}
  Edits = {"edit", "edit2", "edit3"}
  Starts = {"start", "start2"}
  Menus <- Scenarios
  Callers <- CallersOf
  Outages <- AnyOutage
  Clock = {3}
INVARIANTS SoundDocuments AdmittedPlansRunnable FreshMeansReproducible
PROPERTIES ImplementsPromise
CHECK_DEADLOCK FALSE
