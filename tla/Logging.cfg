CONSTANTS
    Goroutines = {g1, g2}
    Names = {"a", "default"}
    DefaultName = "default"
    Ids = {d1, d2, d3}
    Default = d1
    Conf <- MCConf
    NewLevels = {0, 4}
    Calls = {1, 4}
    Timed = {"t", "u"}
    Entries = {e1, e2, e3}
    TimeLogs = {t1, t2, t3}
    MaxFields = 1
    MaxCalls = 1
    None = None
SPECIFICATION Spec
PROPERTIES LoggersKnown LinesRight TimesPrinted
CHECK_DEADLOCK FALSE
SYMMETRY Sym
