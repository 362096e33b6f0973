\* Every kind of request, on two connections that are used again,
\* with a shutdown, under the fairness of the event loop.
CONSTANTS
  Conns = {k1, k2}
  Requests <- AllRequests
  MaxBody = 2
  MaxPerConn = 2
  None = None
SPECIFICATION FairSpec
CHECK_DEADLOCK FALSE
INVARIANTS
  AdapterSeesOnlyCalls
  OneAnswerOneLine
PROPERTIES
  SignalEndsTheProcess
  NoBodyIsAwaitedForever
