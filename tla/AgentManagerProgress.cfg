SPECIFICATION Spec

CONSTANTS
  Callers = {root, rule}
  Users = {root, rule}
  SessionOf <- OneSession
  Root = root
  Slots = {1}
  QueueLen = 1
  MaxIds = 1
  MaxCores = 1
  None = None

PROPERTIES
  AllGetThrough
CHECK_DEADLOCK FALSE
