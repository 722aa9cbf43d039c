SPECIFICATION Spec
CONSTANTS
  SystemRoot = "system"
  WritableRoot = "data"
  SkillIds = {"s1"}
  SkillSessions = {n1}
  SkillCallers = {u1}
  MaxSkillFiles = 2
  MaxSkillEdits = 0
  MaxSkillCalls = 1
INVARIANT WritableOverrides
CHECK_DEADLOCK FALSE
