\* Everything but restores, with every fault: two requests on one key.
SPECIFICATION Spec
CONSTANTS
    r1 = r1
    r2 = r2
    r3 = r3
    e1 = e1
    e2 = e2
    k1 = k1
    k2 = k2
    i1 = i1
    i2 = i2
    p1 = p1
    p2 = p2
    s1 = s1
    s2 = s2
    None = None
    Requests <- TwoRequests
    Existing <- OneExisting
    Keys <- OneKey
    Images <- TwoImages
    Pulls <- TwoPulls
    Snapshots = {}
    DefaultImage = i1
    MaxContainers = 1
    Ops = {"ensure", "remove", "rebuild", "health"}
    Faults = {"refuse", "lose", "disconnect", "fail", "crash"}
    PullMissing = TRUE
    SilentFailures = {}
    Removable = {}
SYMMETRY Symmetry
INVARIANTS TypeOK OneSandboxPerKey PreparingKeepsSandbox
\* The requests of an instance are finitely many, and end.
CHECK_DEADLOCK FALSE
