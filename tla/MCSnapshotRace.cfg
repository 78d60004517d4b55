\* Two captures at a time, without a fault: the one that ends first removes
\* the directory of the other.
SPECIFICATION Spec
CONSTANTS
    r1 = r1
    r2 = r2
    b1 = b1
    b2 = b2
    f1 = f1
    f2 = f2
    i1 = i1
    i2 = i2
    i3 = i3
    None = None
    Requests <- TwoRequests
    Boxes <- TwoBoxes
    MaxLive = 1
    Files <- OneFile
    Ids <- ThreeIds
    MaxSnapshots = 2
    Faults = {}
SYMMETRY Symmetry
INVARIANTS CaptureIsWhole
