SPECIFICATION MCSpec
CHECK_DEADLOCK FALSE
CONSTANTS
    Deferrer = {d1, d2}
    Task = {t1, t2, t3}
    Caller = {c1, c2}
    Concurrency = 2
    Module = {module1, web}
    WebServer = web
    Socket = {socket1}
    ModuleRuns = 2
    ConnectTries = 3
    LoopRuns = 3
    LoopCount = 2
    Signals = 3
INVARIANTS DisposalIsOrderly StopIsKept
PROPERTIES EverythingEnds
