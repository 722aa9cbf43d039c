SPECIFICATION Spec
CONSTANTS
  SizeLimit = 7
  MaxRecords = 8
  MaxBreaks = 1
  Missing = Missing
  Torn = Torn
  ChatKeys = {c1}
  Names = {}
  MaxChildren = 1
  MaxSuffix = 2
  MaxTurns = 1
  MaxFaults = 1
  MaxNodes = 3
  MaxFiles = 2
  MaxBytes = 2
  MaxOffset = 1
  MaxCalls = 2
  MaxCuts = 1
  Editors = {e1, e2}
  RuleIds = {r1, r2}
  MaxRules = 2
  MaxEdits = 3
  MaxPowerCuts = 1
  SystemRoot = "system"
  WritableRoot = "data"
  SkillIds = {"s1", "s2"}
  SkillSessions = {n1}
  SkillCallers = {u1, u2}
  MaxSkillFiles = 2
  MaxSkillEdits = 1
  MaxSkillCalls = 3
  Writers = {w1, w2}
  MemKeys = {k1, k2}
  LongKeys = {k2}
  Labels = {l1, l2}
  CompactChanges = 2
  CompactLines = 5
  MemCapacity = 1
  MaxIds = 2
  MaxMemOps = 2
  MaxRecalls = 1
  MaxMemCuts = 1
INVARIANTS
  TypeOK
  HistoryInOrder
  NothingForgotten
  CompactionSound
  NothingInherited
  ParsedIsSound
  ChangesAreKept
  TreeSound
CHECK_DEADLOCK FALSE
