SPECIFICATION FairSpec
CONSTANTS
  Deadline = 4
  PollInterval = 1
  NotifyRetry = 1
  MaxTime = 5
  MaxRestarts = 1
  ProgressReports <- UnknownProgress
  RequestKinds = {"Text", "Media"}
  Routes = {"Immediate", "Remote", "CancellableRemote"}
  TaskCommand = FALSE
  HandlersMayFail = FALSE
  PromptHandoff = TRUE
PROPERTIES CancellableIsAsked EventuallyNotified
CHECK_DEADLOCK FALSE
