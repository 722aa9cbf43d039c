SPECIFICATION Spec

CONSTANTS
  Callers = {root, rule}
  Users = {root, rule}
  SessionOf <- OwnSessions
  Root = root
  Slots = {1}
  QueueLen = 1
  MaxIds = 1
  MaxCores = 2
  None = None

INVARIANTS
  TypeOK
  CoresAreTheAgents
  OneCorePerSession
PROPERTIES
  RemovedIsSilent
CHECK_DEADLOCK FALSE
