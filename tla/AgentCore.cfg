\* Start-up and shutdown of four plugins that may hang; the agent may stop for good.
SPECIFICATION HangSpec
INVARIANTS AfterInitBarrier ClosedAtMostOnce StartNilMeansReady ErrorMeansRolledBack
PROPERTIES ImplementsLifecycle StartReturns EndsClosed
CONSTANTS
    N = 4
    PostInit <- MCPostInit
CHECK_DEADLOCK FALSE
