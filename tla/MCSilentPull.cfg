\* A pull that fails inside a 200 answer, then a switch to its image.
SPECIFICATION Spec
CONSTANTS
    r1 = r1
    r2 = r2
    r3 = r3
    e1 = e1
    e2 = e2
    k1 = k1
    k2 = k2
    i1 = i1
    i2 = i2
    p1 = p1
    p2 = p2
    s1 = s1
    s2 = s2
    None = None
    Requests <- TwoRequests
    Existing <- OneExisting
    Keys <- OneKey
    Images <- TwoImages
    Pulls <- TwoPulls
    Snapshots = {}
    DefaultImage = i1
    MaxContainers = 1
    Ops = {"ensure"}
    Faults = {}
    PullMissing = TRUE
    SilentFailures = {i2}
    Removable = {}
SYMMETRY Symmetry
INVARIANTS PreparingKeepsSandbox
\* The requests of an instance are finitely many, and end.
CHECK_DEADLOCK FALSE
