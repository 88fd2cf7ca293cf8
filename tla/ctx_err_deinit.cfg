CONSTANTS
  Threads = {t1, t2}
  Nodes = {c1, v1, c2}
  c1 = c1
  v1 = v1
  c2 = c2
  d1 = d1
  d2 = d2
  Root = Root
  None = None
  KindOf <- CancelKinds
  DeadlineOf <- NoDeadlines
  InitParent <- CancelTree
  UserCauses = {}
  Canceled = Canceled
  DeadlineExceeded = DeadlineExceeded
  SpawnError = SpawnError
  Calls = {"new", "cancel", "err", "bind", "unbind", "deinit"}
  WriterPreference = FALSE
  ErrDuringDeinit = TRUE
  MaxCalls = 4
  MaxTime = 0
SPECIFICATION Spec
INVARIANTS NoUseAfterFree
