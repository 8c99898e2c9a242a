CONSTANTS
  c1 = c1
  c2 = c2
  Conns = {c1, c2}
  Topics = {"t"}
  Parts = {0}
  Requests <- MCRequests
  Cap = 1
  MaxMessages = 1
  MaxRestarts = 1
SPECIFICATION FairSpec
INVARIANT CallsAllReceivers
PROPERTIES SubscriptionsKept DeliveryGoesOn
CHECK_DEADLOCK FALSE
