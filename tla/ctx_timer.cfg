CONSTANTS
  Threads = {t1}
  Nodes = {d1, d2}
  c1 = c1
  d1 = d1
  d2 = d2
  c2 = c2
  v1 = v1
  Root = Root
  None = None
  KindOf <- PairKinds
  DeadlineOf <- PairDeadlines
  InitParent <- PairTree
  UserCauses = {}
  Canceled = Canceled
  DeadlineExceeded = DeadlineExceeded
  SpawnError = SpawnError
  Calls = {"new", "cancel", "deinit"}
  WriterPreference = TRUE
  ErrDuringDeinit = FALSE
  MaxCalls = 3
  MaxTime = 2
SPECIFICATION FairSpec
INVARIANTS PointersHeld CausesAgree
PROPERTIES DeadlineFires CallsReturn FirstCauseSticky
\* clients stop calling; CallsReturn shows that nothing else stops them
CHECK_DEADLOCK FALSE
