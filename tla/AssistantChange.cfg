SPECIFICATION FairSpec
CONSTANTS
  t1 = t1
  t2 = t2
  Turns = {t1, t2}
  Scenarios <- Behaviours
  Lifetime = 1
  MaxPlan = 2
  PlanItems = {a}
  None = None
  User = User
INVARIANTS StoredChangesRestore ResumedOnce
PROPERTIES ImplementsPromise PlanLine ApprovedSettles
CHECK_DEADLOCK FALSE
