CONSTANTS
  i1 = i1
  r1 = r1
  d1 = d1
  d2 = d2
  None = None
  Clients = {i1, r1}
  HomeOf <- HomeOfClients
  May <- CrossingCalls
  Dlcis = {d1}
  MaxQueue = 1
  RxCap = 1
  BearerCap = 1
  Faults <- EitherFails
  MaxFaults = 1
  MaxDials = 2
SPECIFICATION FairSpec
PROPERTIES CallsReturn
\* clients stop calling, and an accept or a read may wait for ever
CHECK_DEADLOCK FALSE
