CONSTANTS
  Threads = {t1, t2}
  Nodes = {d1, c1}
  c1 = c1
  d1 = d1
  d2 = d2
  c2 = c2
  v1 = v1
  Root = Root
  None = None
  KindOf <- WaitKinds
  DeadlineOf <- WaitDeadlines
  InitParent <- WaitTree
  UserCauses = {}
  Canceled = Canceled
  DeadlineExceeded = DeadlineExceeded
  SpawnError = SpawnError
  Calls = {"cancel", "wait", "waitT", "err"}
  WriterPreference = TRUE
  ErrDuringDeinit = FALSE
  MaxCalls = 2
  MaxTime = 1
SPECIFICATION FairSpec
PROPERTIES WaiterWoken
