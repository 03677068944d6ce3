SPECIFICATION FairSpec
CONSTANTS
    p1 = p1
    p2 = p2
    cron1 = cron1
    sync1 = sync1
    stream1 = stream1
    cron2 = cron2
    NoCaller = NoCaller
    NoRun = NoRun
    Procs = {p1}
    Callers = {cron1, sync1, stream1}
    ProcOf <- MCProcOf
    Kind <- MCKind
    Runs = {r1, r2, r3}
    NPhases = 1
    PhasePercent <- MCOnePhase
    Faults = {"open"}
PROPERTY LockIsReleased
