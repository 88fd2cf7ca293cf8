CONSTANTS
  i1 = i1
  r1 = r1
  d1 = d1
  d2 = d2
  None = None
  Clients = {i1, r1}
  HomeOf <- HomeOfClients
  May <- StreamCalls
  Dlcis = {d1}
  MaxQueue = 1
  RxCap = 1
  BearerCap = 4
  Faults = {}
  MaxFaults = 0
  MaxDials = 1
SPECIFICATION Spec
INVARIANTS StreamIntact
\* clients stop calling, and an accept or a read may wait for ever
CHECK_DEADLOCK FALSE
