\* Applications may hang; unbuffered channels, both orders in the flavor.
SPECIFICATION HangSpec
PROPERTIES ResyncCompletes ChangesArrive
CONSTANTS
    Subs <- TwoSubs
    Keys <- OneKey
    Watched <- EmptyPrefix
    Cap = 1
    Buffered = {}
    MaxRev = 2
    Orders = {TRUE, FALSE}
CHECK_DEADLOCK FALSE
