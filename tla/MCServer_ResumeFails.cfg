CONSTANTS
    t1 = t1
    t2 = t2
    t3 = t3
    NoPid = NoPid
    Threads <- MCThreads
    Addrs <- MCAddrs
    Entry = 2
    Succ <- MCSucc
    CloneAddrs = {4}
    ExitAddrs = {8}
    FaultAddrs = {10}
    BreakpointSize = 1
    MaxReqAddrs = 2
SPECIFICATION Spec
PROPERTY ResumeFailsOnlyWhenDebuggeeGone
