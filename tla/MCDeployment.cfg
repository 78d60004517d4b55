\* The service and one command of the operator's at a time.
SPECIFICATION FairSpec
CONSTANTS
    c1 = c1
    c2 = c2
    b1 = b1
    Service = Service
    Commands <- OneCommand
    Base = 1
    Fallbacks = 2
    MaxPort = 2
    Sandboxes <- OneSandbox
    MaxFaults = 1
INVARIANTS TypeOK BinaryWhole Owned RuntimeNames UninstallCleans
PROPERTIES ServiceReturns
