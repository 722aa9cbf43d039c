SPECIFICATION Spec

CONSTANTS
  Publishers = {p}
  Core = core
  Kinds = {"chat", "out", "own"}
  AnswerKind = "out"
  OwnKinds = {"own"}
  TextKinds = {"chat"}
  RuleSets <- TwoRuleSets
  TableSize = 2
  QueueLen = 2
  InboxLen = 1
  Coincident = FALSE
  MaxEvents = 4
  FreedActions = 2

INVARIANT TableCoversQueue
CHECK_DEADLOCK FALSE
