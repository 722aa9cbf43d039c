SPECIFICATION Spec

CONSTANTS
  Publishers = {p}
  Core = core
  Kinds = {"chat", "out", "own"}
  AnswerKind = "out"
  OwnKinds = {"own"}
  TextKinds = {"chat"}
  RuleSets <- OneRuleSet
  TableSize = 1
  QueueLen = 1
  InboxLen = 1
  Coincident = TRUE
  MaxEvents = 3
  FreedActions = 2

INVARIANTS
  NoStaleSlot
PROPERTIES
  NobodyWaits
CHECK_DEADLOCK FALSE
