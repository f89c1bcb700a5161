SPECIFICATION FairExchangeSpec
CONSTANTS
  CallIds = {c1, c2, c3}
  MaxCalls = 3
  MaxEvents = 6
  MaxDeltas = 1
  Own = own
  Other = other
  Nothing = nothing
INVARIANTS ReviewerVouches NoMutualWait
PROPERTY ExchangeEnds
CHECK_DEADLOCK FALSE
