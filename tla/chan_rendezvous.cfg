CONSTANTS
    None = none
    Senders = {s1, s2}
    Receivers = {r1, r2}
    Capacity = 0
    MaxCalls = 1
SPECIFICATION FairSpec
INVARIANTS AckedIsDelivered
PROPERTIES ImplementsQueue CloseReleasesAll NoStrandedReceiver TimedCallReturns
