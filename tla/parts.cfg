CONSTANTS
    LoopCap = 2
    PsTypes = {"min", "max"}
    MaxCalls = 3
    QueueCap = 2
    MaxFound = 1
    Clients = {c1, c2}
    None = none
    NsNames <- SomeNsNames
    KeyNames <- SomeKeyNames
    NameCap = 3
    SeenCap = 1
    Spaces = {n1, n2}
    SpaceKeys = {k1, k2}
    ListStamps = 3
    PrefLen = 1
    MaxStamp = 2
    Tasks = {t1, t2}
    Slots = 1
    Buffers = 1
    Nonces = {1}
    Ads = {1, 2}
    TextBlocks = {1}
    MaxBlocks = 2
    MaxSent = 2
    TagCap = 2
    DrawFrames = {f1, f2, f3}
    Areas = {1, 2}
    Colours = {"red", "blue"}
    MaxEvents = 2
    MaxPieces = 2
    Netifs = {n1, n2}
    Bytes = {255}
    ListCap = 1
    QueueLen = 1
    HciPackets = 2
    MaxInits = 2
    Contexts = {x1, x2}
    FrameSamples = 160
    Writers = {w1, w2}
    MaxChunk = 2
    MaxRx = 2
    MaxPlays = 1
    SrHandles = {h1, h2}
    SrFrame = 2
    Lengths = {0, 8, 1456, 3000}
    Room = 4096
    Versions = {1, 2}
    Wanted = 2
    Depth = 64
    Width = 2
    Height = 3
    MaxIn = 3
    Dict = 2
    CondTasks = {t1, t2, t3}
    MaxItems = 2
    Senders = {s1, s2}
    Receivers = {r1, r2}
    ChanItems = 2
    MaxArms = 3
    MaxTime = 3
    Racers = {q1, q2, q3}
    Askers = {a1, a2}
    Values = {1, 2}
    Tickers = {k1, k2}
    Subscribers = {b1, b2}
    MaxTicks = 5
    Sources = {o1}
    Pollers = {l1}
    InboxCap = 2
    Hosts = {d1, d2}
    Requests = {r1, r2, r3}
    PoolConns = {c1, c2}
    Caps = {0, 1}
    MaxIdle = 1
    MaxIdlePerHost = 1
    MaxGenerations = 1
    MaxRounds = 3
    ServerConns = {c1, c2}
    Users = {u1, u2}
    RecvTasks = {t1, t2}
    MaxFaults = 1
    Callers = {c1, c2}
    Roles = {"central", "peripheral"}
    AttOps = {"read", "write"}
    Total = 1
    MaxRequests = 2
    MaxUnasked = 1
    RingCap = 2
    MaxWrites = 2
SPECIFICATION Spec
INVARIANTS TypeOK StateIsBacked IpIsCurrent AckedSurvives AnswersAreTrue ProtectionBack NothingLeaks OutputIsHonest AcceptedIsAuthentic InputsExact HandlesAlive DeviceFollows SleepersHaveReason
PROPERTIES NamespacesApart
\* several parts end: texts, packets, calls and requests are bounded
CHECK_DEADLOCK FALSE
