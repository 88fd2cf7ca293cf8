CONSTANTS
  i1 = i1
  r1 = r1
  d1 = d1
  d2 = d2
  None = None
  Clients = {i1, r1}
  HomeOf <- HomeOfClients
  May <- BothCalls
  Dlcis = {d1, d2}
  MaxQueue = 1
  RxCap = 1
  BearerCap = 4
  Faults <- InitiatorWrites
  MaxFaults = 1
  MaxDials = 2
SPECIFICATION Spec
SYMMETRY DlciSymmetry
INVARIANTS TypeOK RefsExact TableConsistent SleepersMustWait StreamContiguous
PROPERTIES EndsAreFinal
\* clients stop calling, and an accept or a read may wait for ever
CHECK_DEADLOCK FALSE
