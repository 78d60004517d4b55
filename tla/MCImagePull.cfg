\* Two callers, two images: every race of PrepareImage with itself and its pulls.
\* Docker hides failed pulls of i2 in its answer, and others remove it; i1 is benign.
SPECIFICATION FairSpec
CONSTANTS
    c1 = c1
    c2 = c2
    i1 = i1
    i2 = i2
    p1 = p1
    p2 = p2
    None = None
    PullMissing = TRUE
    SilentFailures = {i2}
    Removable = {i2}
    Callers <- MCCallers
    Images <- MCImages
    Pulls <- MCPulls
INVARIANTS TypeOK Registered OnePullPerImage ReadyIsPresent
PROPERTIES FailureIsReported PreparingEnds
