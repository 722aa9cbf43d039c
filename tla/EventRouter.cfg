SPECIFICATION Spec

CONSTANTS
  Publishers = {p, q}
  Core = core
  Kinds = {"chat", "out", "own"}
  AnswerKind = "out"
  OwnKinds = {"own"}
  TextKinds = {"chat"}
  RuleSets <- TwoRuleSets
  TableSize = 2
  QueueLen = 2
  InboxLen = 1
  Coincident = TRUE
  MaxEvents = 3
  FreedActions = 2

INVARIANTS
  TypeOK
  OnTheWayIsTracked
  CancelledIsNotRouted
  RulesStayWhileRouting
CHECK_DEADLOCK FALSE
