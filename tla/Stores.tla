--------------------------------- MODULE Stores ---------------------------------
(***************************************************************************)
(* What the program keeps in files, side by side: the history of a session, *)
(* the sessions of a chat, the rules of the event router, the skills, the   *)
(* long-term memory and the files in RAM with their copies on flash.  They  *)
(* share no state; a behaviour is about one of them, the others stay as     *)
(* they start.                                                              *)
(***************************************************************************)
EXTENDS Naturals, Sequences

CONSTANTS
  SizeLimit, MaxRecords, MaxBreaks, Missing, Torn,
  ChatKeys, Names, MaxChildren, MaxSuffix, MaxTurns, MaxFaults,
  MaxNodes, MaxFiles, MaxBytes, MaxOffset, MaxCalls, MaxCuts,
  Editors, RuleIds, MaxRules, MaxEdits, MaxPowerCuts,
  SystemRoot, WritableRoot, SkillIds, SkillSessions, SkillCallers, MaxSkillFiles,
  MaxSkillEdits, MaxSkillCalls,
  Writers, MemKeys, LongKeys, Labels, CompactChanges, CompactLines, MemCapacity, MaxIds,
  MaxMemOps, MaxRecalls, MaxMemCuts

VARIABLES
  store,
  \* SessionHistory
  data, idx, blocked, rec, pc, batch, moved, turnOpen, deleter, breaks, acked, damaged, settled,
  \* SessionMaps
  configured, chatMap, childMap, sessionFiles, childFiles, turns, faultsLeft, unopened, handedOut, late,
  \* RulesStore
  ruleFile, ruleTmp, rules, editor, editsLeft, powerCutsLeft, accepted, lost, overlapped,
  \* Skills
  docs, roots, entries, booting, skillJob, activeFile, editsDone, skillCallsLeft, loaded,
  reloadsMet, wanted, disturbed,
  \* MemoryStore
  memRecords, memIndex, memDigest, memChanges, memWriter, memIds, memIdsRepeat, memOpsLeft,
  memCutsLeft, memAcked, memDamaged, memStale, memRecounted,
  \* RamFs
  mounted, unmounting, tree, kids, fds, dirHandle, usedBytes, fat, mover, kept, torn, stray,
  callsLeft, cutsLeft

\* Records of different types overlap when one is read in another's place.
MixedLens ==
  [t \in {"user", "tool", "result", "final"} |-> IF t = "result" THEN {2} ELSE {1}]
TwoDefaults == <<"default_01", "default_02">>

History == INSTANCE SessionHistory WITH RecordLens <- MixedLens
Maps == INSTANCE SessionMaps WITH Defaults <- TwoDefaults, MaxSessions <- Len(TwoDefaults)
Rules == INSTANCE RulesStore
Skill == INSTANCE Skills
Memory == INSTANCE MemoryStore
Ram == INSTANCE RamFs

ASSUME StoresAssumption ==
  /\ History!HistoryAssumption /\ Maps!SessionMapsBounds /\ Rules!RulesStoreBounds
  /\ Skill!SkillsBounds /\ Memory!MemoryBounds /\ Ram!RamFsBounds

historyVars == <<data, idx, blocked, rec, pc, batch, moved, turnOpen, deleter, breaks, acked,
                 damaged, settled>>
mapsVars == <<configured, chatMap, childMap, sessionFiles, childFiles, turns, faultsLeft, unopened,
              handedOut, late>>
ruleVars == <<ruleFile, ruleTmp, rules, editor, editsLeft, powerCutsLeft, accepted, lost,
              overlapped>>
skillVars == <<docs, roots, entries, booting, skillJob, activeFile, editsDone, skillCallsLeft,
               loaded, reloadsMet, wanted, disturbed>>
memoryVars == <<memRecords, memIndex, memDigest, memChanges, memWriter, memIds, memIdsRepeat,
                memOpsLeft, memCutsLeft, memAcked, memDamaged, memStale, memRecounted>>
ramVars == <<mounted, unmounting, tree, kids, fds, dirHandle, usedBytes, fat, mover, kept,
             torn, stray, callsLeft, cutsLeft>>
storeVars == <<store, historyVars, mapsVars, ruleVars, skillVars, memoryVars, ramVars>>

Init ==
  /\ store \in {"history", "maps", "rules", "skills", "memory", "ramfs"}
  /\ History!Init /\ Maps!Init /\ Rules!Init /\ Skill!Init
  /\ Memory!Init /\ Ram!Init
  /\ store # "skills" => \A r \in {SystemRoot, WritableRoot}, s \in SkillIds :
                           docs[r][s] = "good"
  /\ store # "memory" => memIds = 0

Next ==
  /\ UNCHANGED store
  /\ \/ /\ store = "history" /\ History!Next
        /\ UNCHANGED <<mapsVars, ruleVars, skillVars, memoryVars, ramVars>>
     \/ /\ store = "maps" /\ Maps!Next
        /\ UNCHANGED <<historyVars, ruleVars, skillVars, memoryVars, ramVars>>
     \/ /\ store = "rules" /\ Rules!Next
        /\ UNCHANGED <<historyVars, mapsVars, skillVars, memoryVars, ramVars>>
     \/ /\ store = "skills" /\ Skill!Next
        /\ UNCHANGED <<historyVars, mapsVars, ruleVars, memoryVars, ramVars>>
     \/ /\ store = "memory" /\ Memory!Next
        /\ UNCHANGED <<historyVars, mapsVars, ruleVars, skillVars, ramVars>>
     \/ /\ store = "ramfs" /\ Ram!Next
        /\ UNCHANGED <<historyVars, mapsVars, ruleVars, skillVars, memoryVars>>

Spec == Init /\ [][Next]_storeVars

-----------------------------------------------------------------------------
\* A property of one store; the others are as they start.
In(name, property) == store = name => property

TypeOK ==
  /\ In("history", History!TypeOK) /\ In("maps", Maps!TypeOK) /\ In("rules", Rules!TypeOK)
  /\ In("skills", Skill!TypeOK) /\ In("memory", Memory!TypeOK)
  /\ In("ramfs", Ram!TypeOK)

\* Whatever append failed and whatever deletion or reset came between, a pair of
\* history files that passes validation reads as records in the order they were
\* handed over, each under its own type, unless a compaction of it broke off
\* (claw_memory_session.c:864-912, 1323-1455).
HistoryInOrder == In("history", History!HistoryInOrder)

\* Every user text and final answer whose append succeeded is loaded until the
\* history is reset, unless a compaction of it broke off.  Every memory that was
\* appended is there until it is forgotten or trimmed, through failed opens, power
\* failures and compactions; unless a compaction of them was cut, did not fit its
\* buffer, or met an append or an update under way, somebody forgot the memory an
\* update had relied on, the line before it had been cut, or it got an id that was
\* in use (claw_memory_session.c:1529-1547, 1614-1776; claw_memory_storage.c:462-481,
\* 534-536, 997-1112; claw_memory_extract.c:351-357).
NothingForgotten ==
  In("history", History!NothingForgotten) /\ In("memory", Memory!MemoriesKept)

\* A compaction of a history spares the newest completed turn that ran tools,
\* separates no tool call from its result (unless it broke off) and leaves a file
\* that fits or is blocked.  One of the memories leaves an index that counts and
\* finds them, unless operations overlapped or broke off since the boot, the index
\* did not open, or a memory was lost as in NothingForgotten; it counts a recall
\* once, unless it was cut or failed after its records, had another operation
\* beside it, a recall came between the size of the digest and its reading, or the
\* index did not open (claw_memory_session.c:1457-1547, 1649-1660;
\* claw_memory_storage.c:39-57, 868-937, 967, 1031-1060, 1093-1098).
CompactionSound ==
  /\ In("history", History!ToolTurnKept /\ History!SizeSettled)
  /\ In("memory", Memory!IndexIsRight /\ Memory!RecallsCountedOnce)

\* A new session or subagent starts without the history of an earlier one: a
\* history belongs to a session that is listed, and no subagent id is given out
\* twice; unless the map is damaged, it could once not be opened and was taken for
\* none, or a turn of the session ended after its deletion
\* (claw_session_mgr.c:327-330, 795-800, 922-944, 1311-1324).
NothingInherited == In("maps", Maps!HistoriesAreListed /\ Maps!ChildrenAreNew)

\* What was parsed from files is valid and has no id twice, whoever edits or
\* reloads: the rules in force, and the skills.  Between reloads these are those of
\* the directories when the last successful reload read them, an earlier directory
\* first, unless two reloads met (claw_event_router.c:2691, claw_skill.c:857-872,
\* 1310-1337).
ParsedIsSound == In("rules", Rules!RulesAreSound) /\ In("skills", Skill!CatalogIsSound)

\* A change that returned ESP_OK is in the file, and nothing else is, through
\* failed writes and power failures.  Of the rules, unless two editors worked
\* together, or a failure came between remove and rename: then there is no file,
\* never a part of one.  Of a session's skills, unless its calls met each other or
\* a reload, or a write was cut.  Of the copy of a file in RAM, unless a failure
\* came between unlink and rename: then there is none, never a part of one; and a
\* load puts whole files in place (claw_event_router.c:1057-1131,
\* claw_skill.c:1481-1508, claw_ramfs.c:598-657, 1654-1729).
ChangesAreKept ==
  /\ In("rules", Rules!EditsAreKept) /\ In("skills", Skill!ActiveIsKept)
  /\ In("ramfs", Ram!SyncedIsKept /\ Ram!LoadedWhole)

\* The tree of files in RAM is whole, every handle refers to a node of it that
\* counts the handle, and the bytes used are the bytes stored
\* (claw_ramfs.c:426, 1015-1043, 1054-1130).
TreeSound == In("ramfs", Ram!TreeIsWhole /\ Ram!HandlesAlive /\ Ram!BytesAccounted)
=============================================================================
