\* Two plugins, one of them with a probe; the process may end by a fatal error
\* of the runtime.
SPECIFICATION FairSpec
INVARIANTS ReadyNeverHidesError AllOKMeansReady
PROPERTIES PublishedCatchesUp CloseCompletes
CONSTANTS
    Names = {p1, p2}
    Probed = {p2}
    States <- MCStates
    Errors = {}
CHECK_DEADLOCK FALSE
