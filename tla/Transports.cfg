\* One application, two calls, a stream of three changes, two writers; the application may hang.
SPECIFICATION TFairSpec
INVARIANTS ConfirmedAnswersTrue ApplicationsFollow EventsTrue
PROPERTIES CallsReturn EventsArrive
CONSTANTS
    Subs <- OneSub
    Keys <- TwoKeys
    KeyPrefixes <- TwoPrefixes
    Matches <- OneKeyEach
    Wanted <- Watches
    Calls = {c1, c2}
    Cap = 1
    DoneCap = 1
    Nobody = Nobody
    Stream = Stream
    Traffic <- AllTraffic
    Script <- Changes
    Ops <- PutsAndDelete
    Writers <- TwoWriters
CHECK_DEADLOCK FALSE
