SPECIFICATION Spec
CONSTANTS
  r1 = r1
  r2 = r2
  r3 = r3
  r4 = r4
  s1 = s1
  s2 = s2
  NoSession = NoSession
  None = None
  Wake = Wake
  Requests <- LineRequests
  Sessions <- MCSessions
  SessionOf <- LineSessions
  Interrupting <- LineInterrupting
  Skipping <- SkippingOne
  RequestQueueLen = 1
  ResponseQueueLen = 1
  InsertQueueLen = 2
  MaxToolIterations = 2
CHECK_DEADLOCK FALSE
PROPERTIES
  LifecycleSpec
  StopExits
  QueuedServed
