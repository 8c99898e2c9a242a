\* Safety with two subscriptions; the system stops when all is handled.
SPECIFICATION Spec
INVARIANTS ResyncOneByOne NothingFallsBetween
PROPERTY ChangesChain
CONSTANTS
    Subs <- TwoSubs
    Keys <- TwoKeys
    Watched <- OwnKeys
    Cap = 1
    Buffered = {"s1"}
    MaxRev = 3
    Orders = {TRUE}
CHECK_DEADLOCK FALSE
