CONSTANTS
    None = none
    Senders = {s1}
    Receivers = {r1}
    Capacity = 0
    MaxCalls = 2
SPECIFICATION Spec
INVARIANTS FailedNotDelivered
