SPECIFICATION Spec
CONSTANTS
  Deadline = 4
  PollInterval = 1
  NotifyRetry = 1
  MaxTime = 5
  MaxRestarts = 2
  ProgressReports <- VanishingProgress
  RequestKinds = {"Text", "Media"}
  Routes = {"Immediate", "Remote", "CancellableRemote"}
  TaskCommand = TRUE
  HandlersMayFail = TRUE
  PromptHandoff = FALSE
INVARIANTS OnlyHalfHandoffsRefused NeverCorrupt
PROPERTY ImplementsPromise
CHECK_DEADLOCK FALSE
