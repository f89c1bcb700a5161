SPECIFICATION FairSpec
CONSTANTS
  Nodes = {"image", "text", "video"}
  Upstream <- ChainUpstream
  TaskNodes = {"image", "text"}
  Slots = {1, 2}
  MaximumConcurrency = 2
  MaxRestarts = 1
  MayCancel = FALSE
  MayFail = FALSE
  PromptHandoff = TRUE
PROPERTIES RunEnds
CHECK_DEADLOCK FALSE
