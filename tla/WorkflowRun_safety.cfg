SPECIFICATION Spec
CONSTANTS
  Nodes = {"image", "text", "video"}
  Upstream <- JoinUpstream
  TaskNodes = {"image", "video"}
  Slots = {1, 2}
  MaximumConcurrency = 2
  MaxRestarts = 1
  MayCancel = TRUE
  MayFail = TRUE
  PromptHandoff = FALSE
INVARIANTS ExecutedOnce RunIsDriven
PROPERTIES ImplementsPromise
CHECK_DEADLOCK FALSE
