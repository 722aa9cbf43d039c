------------------------------ MODULE SessionMaps ------------------------------
(***************************************************************************)
(* The session manager: which sessions a chat has, which of them is current *)
(* and which subagents a session named.  Both are small files that are      *)
(* read, changed and written in place under one mutex; a write that fails   *)
(* half-way, or that the power cuts, leaves a file nobody can read; one     *)
(* that cannot be opened is taken for one that is not there.  A turn of the *)
(* agent ends long after its message was given a session, when that session *)
(* may have been deleted.                                                   *)
(***************************************************************************)
EXTENDS Naturals, Sequences, FiniteSets, SequencesExt

CONSTANTS
  ChatKeys,
  Defaults,      \* "default_01", "default_02", ... in order
  Names,         \* other aliases a user asks for
  MaxSessions,   \* CLAW_SESSION_MGR_MAX_SESSIONS
  MaxChildren,   \* CLAW_SESSION_MGR_SUBAGENT_MAX
  MaxSuffix,     \* bound on the suffixes of subagents
  MaxTurns,      \* bound on the turns in progress
  MaxFaults      \* bound on power failures and openings that fail

SessionMapsBounds ==
  /\ MaxSessions \in Nat \ {0} /\ Defaults \in Seq(STRING) /\ Len(Defaults) = MaxSessions
  /\ MaxChildren \in Nat /\ MaxSuffix \in Nat /\ MaxTurns \in Nat /\ MaxFaults \in Nat

VARIABLES
  configured,  \* the directories were made at this boot
  chatMap,     \* the alias map of every chat, on flash
  childMap,    \* the subagent map of every session, on flash
  sessionFiles, \* sessions with a history on flash
  childFiles,  \* subagents with a history on flash
  turns,       \* sessions of the turns in progress
  faultsLeft,
  unopened,    \* history: chats and sessions whose map could not be opened once
  handedOut,   \* history: the subagent ids given out, with how often
  late         \* history: sessions in which a turn ended after their deletion

mapVars == <<chatMap, childMap>>
sessionMapVars == <<configured, mapVars, sessionFiles, childFiles, turns, faultsLeft, unopened,
                    handedOut, late>>
faultVars == <<faultsLeft, unopened>>

Aliases == ToSet(Defaults) \cup Names
NoAlias == "none"   \* the id that a chat falls back to has no alias

\* A file is missing, damaged or whole.
File(state, sessions, current) == [state |-> state, sessions |-> sessions, current |-> current]
NoMap == File("missing", <<>>, NoAlias)
DamagedMap == File("damaged", <<>>, NoAlias)
Children(state, next, ids) == [state |-> state, next |-> next, ids |-> ids]
NoChildren == Children("missing", 1, <<>>)
DamagedChildren == Children("damaged", 1, <<>>)

SessionIds == ChatKeys \X (Aliases \cup {NoAlias})
Parents == {<<chat, Defaults[1]>> : chat \in ChatKeys}   \* one session of each chat
ChildIds == Parents \X (1 .. MaxSuffix)

-----------------------------------------------------------------------------
(* The maps *)

AliasExists(map, alias) == alias \in ToSet(map.sessions)

\* Those behind the entry move up; it is there once.
Without(list, x) == RemoveAt(list, CHOOSE i \in DOMAIN list : list[i] = x)

IsSound(map) ==
  /\ Len(map.sessions) \in 1 .. MaxSessions
  /\ IsInjective(map.sessions)
  /\ AliasExists(map, map.current)

\* Any failure to open a file for reading is ESP_ERR_NOT_FOUND.
Opening(owner, map, opens) ==
  IF opens THEN UNCHANGED faultVars
  ELSE /\ map.state # "missing" /\ faultsLeft > 0
       /\ faultsLeft' = faultsLeft - 1
       /\ unopened' = unopened \cup {owner}

LoadMapping(chat, opens) == IF opens THEN chatMap[chat] ELSE NoMap
LoadChildren(parent, opens) == IF opens THEN childMap[parent] ELSE NoChildren

\* fopen fails, fputs fails or all is written; an unsound map is not opened.
WriteMapping(chat, map, outcome) ==
  chatMap' = IF ~IsSound(map) \/ outcome = "refused" THEN chatMap
             ELSE [chatMap EXCEPT ![chat] = IF outcome = "half" THEN DamagedMap ELSE map]

InitMapping == File("whole", <<Defaults[1]>>, Defaults[1])

\* A missing map is written with one session, a damaged one stays.
LoadOrInit(chat, opens, outcome) ==
  /\ Opening(chat, chatMap[chat], opens)
  /\ IF LoadMapping(chat, opens).state = "missing" THEN WriteMapping(chat, InitMapping, outcome)
     ELSE UNCHANGED chatMap

BuildDefaultAlias(map) ==
  LET free == {i \in DOMAIN Defaults : ~AliasExists(map, Defaults[i])}
  IN  Defaults[CHOOSE i \in free : \A j \in free : i <= j]

WriteChildren(parent, map, outcome) ==
  childMap' = IF outcome = "refused" THEN childMap
              ELSE [childMap EXCEPT ![parent] = IF outcome = "half" THEN DamagedChildren ELSE map]

-----------------------------------------------------------------------------
(* A message of a chat gets the id of the current session; without a readable *)
(* map, the id without an alias.                                            *)

CurrentAlias(map, outcome) ==
  CASE map.state = "whole" -> map.current
    [] map.state = "missing" /\ outcome = "whole" -> InitMapping.current
    [] OTHER -> NoAlias

BuildSessionId(chat, opens, outcome) ==
  /\ Len(turns) < MaxTurns
  /\ IF configured
     THEN /\ LoadOrInit(chat, opens, outcome)
          /\ turns' = Append(turns, <<chat, CurrentAlias(LoadMapping(chat, opens), outcome)>>)
     ELSE turns' = Append(turns, <<chat, NoAlias>>) /\ UNCHANGED <<chatMap, faultVars>>
  /\ UNCHANGED <<configured, childMap, sessionFiles, childFiles, handedOut, late>>

Listed(id) ==
  LET map == chatMap[id[1]]
  IN  IF id[2] = NoAlias THEN TRUE ELSE map.state = "whole" /\ AliasExists(map, id[2])

\* The core appends the turn to the session's history.
TurnEnds ==
  /\ turns # <<>>
  /\ turns' = Tail(turns)
  /\ sessionFiles' = sessionFiles \cup {Head(turns)}
  /\ late' = IF Listed(Head(turns)) THEN late ELSE late \cup {Head(turns)}
  /\ UNCHANGED <<configured, mapVars, childFiles, faultVars, handedOut>>

-----------------------------------------------------------------------------
(* What a user does with the sessions of a chat *)

NewChatSession(chat, alias, opens, outcome) ==
  LET map == LoadMapping(chat, opens)
      new == File("whole", Append(map.sessions, alias), alias)
  IN  /\ configured /\ map.state # "damaged" /\ Opening(chat, chatMap[chat], opens)
      /\ Len(map.sessions) < MaxSessions
      /\ ~AliasExists(map, alias)
      /\ WriteMapping(chat, new, outcome)
      /\ UNCHANGED <<configured, childMap, sessionFiles, childFiles, turns, handedOut, late>>

NewUnnamedSession(chat, opens, outcome) ==
  LET map == LoadMapping(chat, opens)
  IN  /\ Len(map.sessions) < MaxSessions
      /\ NewChatSession(chat, BuildDefaultAlias(map), opens, outcome)

ListChatSessions(chat, opens, outcome) ==
  /\ configured
  /\ LoadOrInit(chat, opens, outcome)
  /\ UNCHANGED <<configured, childMap, sessionFiles, childFiles, turns, handedOut, late>>

\* A map that was missing is initialised before the alias is looked for in it.
SwitchChatSession(chat, alias, opens, outcome) ==
  LET map == LoadMapping(chat, opens)
  IN  /\ configured
      /\ \/ map.state = "missing" /\ LoadOrInit(chat, opens, outcome)
         \/ /\ map.state = "whole" /\ AliasExists(map, alias)
            /\ Opening(chat, chatMap[chat], opens)
            /\ WriteMapping(chat, [map EXCEPT !.current = alias], outcome)
      /\ UNCHANGED <<configured, childMap, sessionFiles, childFiles, turns, handedOut, late>>

\* Mutant: the alias goes although its history could not be deleted.
DeleteChatSessionAnyway(chat, alias, deleted, outcome) ==
  LET map == chatMap[chat]
      rest == [map EXCEPT !.sessions = Without(@, alias)]
  IN  /\ configured /\ map.state = "whole"
      /\ AliasExists(map, alias) /\ map.current # alias
      /\ sessionFiles' = IF deleted THEN sessionFiles \ {<<chat, alias>>} ELSE sessionFiles
      /\ WriteMapping(chat, rest, outcome)
      /\ UNCHANGED <<configured, childMap, childFiles, turns, faultVars, handedOut, late>>

\* The history goes first, then the alias; the current session is refused.  When
\* only a part is deleted, the state of the skills is left, the alias stays.
DeleteChatSession(chat, alias, deleted, outcome) ==
  LET map == chatMap[chat]
      rest == [map EXCEPT !.sessions = Without(@, alias)]
  IN  /\ configured /\ map.state = "whole"
      /\ AliasExists(map, alias) /\ map.current # alias
      /\ IF deleted THEN /\ sessionFiles' = sessionFiles \ {<<chat, alias>>}
                         /\ WriteMapping(chat, rest, outcome)
                    ELSE /\ sessionFiles' \in {sessionFiles, sessionFiles \ {<<chat, alias>>}}
                         /\ UNCHANGED chatMap
      /\ UNCHANGED <<configured, childMap, childFiles, turns, faultVars, handedOut, late>>

-----------------------------------------------------------------------------
(* Subagents of a session *)

HasChild(map, id) == id \in ToSet(map.ids)

\* Mutant: the first suffix that is free.
NextSuffixFree(parent, map) ==
  CHOOSE i \in 1 .. MaxSuffix :
    /\ ~HasChild(map, <<parent, i>>)
    /\ \A j \in 1 .. i - 1 : HasChild(map, <<parent, j>>)

\* The first suffix from next_suffix on that is not in the list.
NextSuffix(parent, map) ==
  CHOOSE i \in map.next .. MaxSuffix :
    /\ ~HasChild(map, <<parent, i>>)
    /\ \A j \in map.next .. i - 1 : HasChild(map, <<parent, j>>)

AllocSubagentSession(parent, opens, outcome) ==
  LET map == LoadChildren(parent, opens)
      suffix == NextSuffix(parent, map)
      id == <<parent, suffix>>
  IN  /\ configured /\ map.state # "damaged" /\ Opening(parent, childMap[parent], opens)
      /\ Len(map.ids) < MaxChildren /\ map.next <= MaxSuffix
      /\ WriteChildren(parent, Children("whole", suffix + 1, Append(map.ids, id)), outcome)
      /\ handedOut' = IF outcome = "whole" THEN [handedOut EXCEPT ![id] = @ + 1] ELSE handedOut
      /\ UNCHANGED <<configured, chatMap, sessionFiles, childFiles, turns, late>>

SubagentWorks(parent, suffix) ==
  /\ configured /\ HasChild(childMap[parent], <<parent, suffix>>)
  /\ childFiles' = childFiles \cup {<<parent, suffix>>}
  /\ UNCHANGED <<configured, mapVars, sessionFiles, turns, faultVars, handedOut, late>>

DeleteSubagentSession(parent, suffix, deleted, outcome) ==
  LET map == childMap[parent]
      id == <<parent, suffix>>
      rest == [map EXCEPT !.ids = Without(@, id)]
  IN  /\ configured /\ map.state = "whole"
      /\ HasChild(map, id)
      /\ IF deleted THEN /\ childFiles' = childFiles \ {id}
                         /\ WriteChildren(parent, rest, outcome)
                    ELSE UNCHANGED <<childMap, childFiles>>
      /\ UNCHANGED <<configured, chatMap, sessionFiles, turns, faultVars, handedOut, late>>

-----------------------------------------------------------------------------
\* The root directory is set at boot; a directory may be refused.
SetSessionRootDir ==
  /\ ~configured
  /\ configured' = TRUE
  /\ UNCHANGED <<mapVars, sessionFiles, childFiles, turns, faultVars, handedOut, late>>

PowerFails ==
  /\ faultsLeft > 0
  /\ faultsLeft' = faultsLeft - 1
  /\ configured' = FALSE /\ turns' = <<>>
  /\ UNCHANGED <<mapVars, sessionFiles, childFiles, unopened, handedOut, late>>

Init ==
  /\ configured = FALSE
  /\ chatMap = [c \in ChatKeys |-> NoMap] /\ childMap = [p \in Parents |-> NoChildren]
  /\ sessionFiles = {} /\ childFiles = {} /\ turns = <<>> /\ faultsLeft = MaxFaults
  /\ unopened = {} /\ handedOut = [id \in ChildIds |-> 0] /\ late = {}

\* A delete that cannot open the map is refused, and changes nothing.
Deletes(outcome) ==
  \E deleted \in BOOLEAN :
    \/ \E chat \in ChatKeys, alias \in Aliases : DeleteChatSession(chat, alias, deleted, outcome)
    \/ \E parent \in Parents, suffix \in 1 .. MaxSuffix :
         DeleteSubagentSession(parent, suffix, deleted, outcome)

WritesAMap(opens, outcome) ==
  \/ \E chat \in ChatKeys :
       \/ BuildSessionId(chat, opens, outcome) \/ ListChatSessions(chat, opens, outcome)
       \/ NewUnnamedSession(chat, opens, outcome)
       \/ \E alias \in Aliases : NewChatSession(chat, alias, opens, outcome)
                                 \/ SwitchChatSession(chat, alias, opens, outcome)
  \/ \E parent \in Parents : AllocSubagentSession(parent, opens, outcome)

Next ==
  \/ \E outcome \in {"refused", "half", "whole"} :
       Deletes(outcome) \/ \E opens \in BOOLEAN : WritesAMap(opens, outcome)
  \/ TurnEnds
  \/ \E parent \in Parents, suffix \in 1 .. MaxSuffix : SubagentWorks(parent, suffix)
  \/ SetSessionRootDir \/ PowerFails

Spec == Init /\ [][Next]_sessionMapVars

-----------------------------------------------------------------------------
TypeOK ==
  /\ configured \in BOOLEAN /\ faultsLeft \in 0 .. MaxFaults
  /\ \A c \in ChatKeys :
       /\ chatMap[c].state \in {"missing", "damaged", "whole"}
       /\ chatMap[c].state = "whole" => IsSound(chatMap[c])
  /\ \A p \in Parents :
       /\ childMap[p].state \in {"missing", "damaged", "whole"}
       /\ childMap[p].next \in 1 .. MaxSuffix + 1 /\ Len(childMap[p].ids) <= MaxChildren
  /\ sessionFiles \subseteq SessionIds /\ childFiles \subseteq ChildIds /\ late \subseteq SessionIds
  /\ unopened \subseteq ChatKeys \cup Parents
  /\ turns \in Seq(SessionIds)
  /\ handedOut \in [ChildIds -> Nat]

\* A history on flash belongs to a session that its chat lists, so that a new
\* session never continues an old conversation.  The exceptions, where one may:
\* a map that is damaged; one that could once not be opened, which the code
\* writes anew as if there had been none (claw_session_mgr.c:327-330, 422-424);
\* and a turn that ended after its session was deleted
\* (claw_session_mgr.c:1311-1324).
HistoriesAreListed ==
  \A id \in sessionFiles :
    \/ Listed(id) \/ chatMap[id[1]].state = "damaged"
    \/ id[1] \in unopened \/ id \in late

\* No subagent id is given out twice, whatever was deleted, refused or cut in
\* between, and a subagent's history is that of a child its parent lists, unless
\* the parent's map could once not be opened: its suffixes begin at 1 again
\* (claw_session_mgr.c:795-800, 922-944 and 1054-1060).
ChildrenAreNew ==
  /\ \A id \in ChildIds : id[1] \in unopened \/ handedOut[id] <= 1
  /\ \A id \in childFiles :
       \/ HasChild(childMap[id[1]], id) \/ childMap[id[1]].state = "damaged"
       \/ id[1] \in unopened
=============================================================================
