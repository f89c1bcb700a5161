SPECIFICATION MCSpec
CONSTANTS
  Imports = {"import"}
  Outputs = {"first", "second"}
  Contents = {"bytes", "otherBytes"}
  Productions <- AllProductions
  Reconciled <- Singles
  MaxIncidents <- OneIncident
  Gallery = {1, 2, 3}
  Owner <- MCOwner
  MediaKind <- MCMediaKind
  ByteLength <- MCByteLength
  Imported = {2}
  Fragile = {2}
  Methods = {"GET", "other"}
  Ranges <- MCRanges
  Times = {0, 1}
  Lifetime = 1
  LibraryPage = 1
  MaxRefreshes = 2
INVARIANTS BytesSurvive OneAssetPerOutput FreshLibrary PreviewAnswers
PROPERTIES ImplementsPromise PendingSettles
CHECK_DEADLOCK FALSE
