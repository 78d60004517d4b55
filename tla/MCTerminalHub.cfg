\* Three windows race for one slot; clients leave, stall or are silent.
SPECIFICATION FairSpec
CONSTANTS
    w1 = w1
    w2 = w2
    w3 = w3
    Windows <- ThreeWindows
    MaxWindows = 1
    MaxOutput = 2
    MaxProduced = 3
INVARIANTS TypeOK SlotsCounted EventOrder OutputAccounted
PROPERTIES SlotsImplemented IdleIsLeft CommandEnds
