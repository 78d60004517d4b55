---------------------------- MODULE WindowSlots ----------------------------
(***************************************************************************)
(* What TerminalHub promises about terminal windows: at most MaxWindows    *)
(* are open at a time, and a window is opened or closed in one step.       *)
(***************************************************************************)
EXTENDS Naturals, FiniteSets

CONSTANTS Windows, MaxWindows

VARIABLE holders \* the windows that are open

Init == holders = {}

Open(w) ==
    /\ w \notin holders
    /\ Cardinality(holders) < MaxWindows
    /\ holders' = holders \cup {w}

Close(w) ==
    /\ w \in holders
    /\ holders' = holders \ {w}

Next == \E w \in Windows : Open(w) \/ Close(w)

Spec == Init /\ [][Next]_holders
=============================================================================
