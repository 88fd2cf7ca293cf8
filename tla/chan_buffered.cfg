CONSTANTS
    None = none
    Senders = {s1, s2}
    Receivers = {r1, r2, r3}
    Capacity = 2
    MaxCalls = 2
SPECIFICATION Spec
SYMMETRY Symmetry
INVARIANTS WakeupsCoverItems WakeupsCoverSpace
PROPERTIES ImplementsQueue
