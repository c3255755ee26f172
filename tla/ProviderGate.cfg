SPECIFICATION FairSpec
CONSTANTS
    p1 = p1
    p2 = p2
    t1 = t1
    t2 = t2
    t3 = t3
    t4 = t4
    NoPid = NoPid
    Procs = {p1, p2}
    Threads = {t1, t2, t3, t4}
    Stages = {"assistant", "final_judge"}
    ProcOf <- MCProcOf
    StageOf <- MCStageOf
    Limit <- MCLimit
    Pids = {1, 2}
    Window = 2
    RpmCap = 2
    Interval = 1
    MaxCalls = 1
    MaxTime = 3
    MaxLives <- MCMaxLives
INVARIANTS
    TypeOK
    WithinLimit
    PermitBacked
    AggregateRate
PROPERTIES
    CrashNeverBlocks
