------------------------ MODULE AgentManager_proofs -------------------------
(***************************************************************************)
(* Proofs about AgentManager for any number of slots, cores and ids and    *)
(* any length of the queues.  What says whose core a core is holds when no *)
(* two users work for the same session.                                    *)
(***************************************************************************)
EXTENDS AgentManager, FiniteSetTheorems, WellFoundedInduction, TLAPS

(* The type invariant, one variable at a time.                             *)
SlotRecords == [id : Ids \cup {None}, status : Statuses, closing : BOOLEAN,
                core : Cores \cup {None}]
CoreRecords == [at : {"unborn", "idle", "turn", "chat", "report", "reporting", "ended"},
                id : Ids \cup {None}, slot : Slots \cup {0}, work : 0..QueueLen,
                stop : BOOLEAN, named : Ids \cup {None}]
Args == [id : Ids \cup {None}, core : Cores \cup {None}]
Places == {"idle", "spawning", "sending", "posting", "closing", "marking", "deleting",
           "purging", "unmarking", "clearing", "updating"}

TypeSlot == slot \in [Slots -> SlotRecords]
TypeCore == core \in [Cores -> CoreRecords] /\ created \in 0..MaxCores
TypeSessions == nextId \in [Sessions -> 1..(MaxIds + 1)] /\ known \subseteq Ids
TypeArg == arg \in [Callers -> Args]
TypeCaller ==
  /\ pc \in [Callers -> Places]
  /\ holder \subseteq Callers \cup Cores /\ Cardinality(holder) <= 1
  /\ rootWork \in 0..QueueLen
  /\ updating \subseteq Cores /\ leaked \subseteq Cores

Removing == {"closing", "deleting"}
Holding == Removing \cup {"purging", "unmarking", "clearing"}
OwnIds(k) == {SessionOf[k]} \X (1..MaxIds)

(* A caller that works on an agent works on one of its own session; a core *)
(* that was created has a slot and an agent.                               *)
WorksOnOwn ==
  \A k \in Callers :
    /\ pc[k] \notin {"idle", "posting", "updating"} => k \in Users /\ arg[k].id \in OwnIds(k)
    /\ pc[k] \in Removing \cup {"sending"} => arg[k].core \in Cores
CreatedInOrder ==
  /\ \A c \in Cores : core[c].at = "unborn" <=> c > created
  /\ \A c \in Cores : core[c].at # "unborn" => core[c].slot \in Slots /\ core[c].id \in Ids

BaseInv == /\ TypeSlot /\ TypeCore /\ TypeSessions /\ TypeArg /\ TypeCaller
           /\ WorksOnOwn /\ CreatedInOrder

LEMMA TypeParts ==
  TypeOK <=> TypeSlot /\ TypeCore /\ TypeSessions /\ TypeArg /\ TypeCaller
BY DEF TypeOK, TypeSlot, TypeCore, TypeSessions, TypeArg, TypeCaller, SlotRecords, CoreRecords,
       Args, Places

-----------------------------------------------------------------------------
(* The helpers.                                                             *)

(* A slot is found when there is one to be had.                            *)
LEMMA FirstSlotIsFree ==
  ASSUME ~Full PROVE FirstSlot \in Slots /\ Allocatable(FirstSlot)
<1>. DEFINE T == {s \in Slots : Allocatable(s)}
<1>1. T \subseteq Nat /\ T # {}
  BY ManagerAssumption DEF Full
<1>2. PICK s \in T : \A r \in T : ~(<<r, s>> \in OpToRel(<, Nat))
  <2>. HIDE DEF T
  <2>. QED BY <1>1, WFMin, NatLessThanWellFounded
<1>3. \A r \in T : s <= r
  <2>. SUFFICES ASSUME NEW r \in T PROVE s <= r
    OBVIOUS
  <2>1. s \in Nat /\ r \in Nat /\ <<r, s>> \in Nat \X Nat
    BY <1>1
  <2>2. ~(r < s)
    BY <1>2, <2>1 DEF OpToRel
  <2>. QED BY <2>1, <2>2
<1>4. \E x \in Slots : Allocatable(x) /\ \A r \in Slots : Allocatable(r) => x <= r
  BY <1>2, <1>3
<1>. QED BY <1>4 DEF FirstSlot

LEMMA TakenIsASlot ==
  ASSUME NEW id, NEW s, FindsOrTakes(id, s) PROVE s \in Slots
BY FirstSlotIsFree DEF FindsOrTakes, Finds, SlotsOf

LEMMA RecordsTyped ==
  /\ Free \in SlotRecords /\ NoArg \in Args /\ Unborn \in CoreRecords
  /\ \A id \in Ids : [Free EXCEPT !.id = id] \in SlotRecords
<1>1. Free \in SlotRecords
  BY DEF Free, SlotRecords, Statuses
<1>2. NoArg \in Args
  BY DEF NoArg, Args
<1>3. Unborn \in CoreRecords
  BY ManagerAssumption DEF Unborn, CoreRecords
<1>4. \A id \in Ids : [Free EXCEPT !.id = id] \in SlotRecords
  BY <1>1 DEF SlotRecords
<1>. QED BY <1>1, <1>2, <1>3, <1>4

LEMMA TakenTyped ==
  ASSUME TypeSlot, NEW id \in Ids, NEW s \in Slots
  PROVE  Taken(id, s) \in SlotRecords /\ Taken(id, s).id = id
BY RecordsTyped DEF Taken, TypeSlot, SlotRecords, Free

LEMMA StartedTyped ==
  ASSUME NEW id \in Ids, NEW s \in Slots, NEW n \in 0..QueueLen
  PROVE  /\ Started(id, s, n) \in CoreRecords
         /\ Started(id, s, n).id = id /\ Started(id, s, n).slot = s
         /\ Started(id, s, n).at = "idle"
<1>1. Unborn \in CoreRecords
  BY RecordsTyped
<1>. QED BY <1>1 DEF Started, CoreRecords

LEMMA OwnIsId == ASSUME NEW k \in Users PROVE OwnIds(k) \subseteq Ids
BY DEF OwnIds, Ids, Sessions

(* Changes of one record.                                                   *)
LEMMA SlotSet ==
  ASSUME TypeSlot, NEW s, NEW r \in SlotRecords
  PROVE  [slot EXCEPT ![s] = r] \in [Slots -> SlotRecords]
BY DEF TypeSlot

LEMMA CoreSet ==
  ASSUME TypeCore, NEW c, NEW r \in CoreRecords
  PROVE  [core EXCEPT ![c] = r] \in [Cores -> CoreRecords]
BY DEF TypeCore

LEMMA ArgSet ==
  ASSUME TypeArg, NEW k, NEW r \in Args
  PROVE  [arg EXCEPT ![k] = r] \in [Callers -> Args]
BY DEF TypeArg

LEMMA ArgNamed == ASSUME NEW r \in Args, NEW id \in Ids PROVE [r EXCEPT !.id = id] \in Args
BY DEF Args

LEMMA SlotStarted ==
  ASSUME NEW r \in SlotRecords, NEW c \in Cores
  PROVE  [r EXCEPT !.core = c, !.status = "running"] \in SlotRecords
BY DEF SlotRecords, Statuses

LEMMA SlotRemoved ==
  ASSUME NEW r \in SlotRecords
  PROVE  [r EXCEPT !.core = None, !.status = "closed", !.closing = TRUE] \in SlotRecords
BY DEF SlotRecords, Statuses

LEMMA CorePushed ==
  ASSUME NEW r \in CoreRecords, r.work < QueueLen
  PROVE  [r EXCEPT !.work = @ + 1] \in CoreRecords
<1>1. r.work + 1 \in 0..QueueLen
  BY ManagerAssumption DEF CoreRecords
<1>. QED BY <1>1 DEF CoreRecords

LEMMA CoreStopped ==
  ASSUME NEW r \in CoreRecords PROVE [r EXCEPT !.stop = TRUE] \in CoreRecords
BY DEF CoreRecords

LEMMA CoreSilent ==
  ASSUME NEW r \in CoreRecords PROVE [r EXCEPT !.at = "idle", !.named = None] \in CoreRecords
BY DEF CoreRecords

LEMMA NewCore ==
  ASSUME TypeCore, created < MaxCores
  PROVE  /\ created + 1 \in Cores /\ created + 1 \in 0..MaxCores /\ created + 1 > created
         /\ \A c \in Cores : c > created + 1 <=> c > created /\ c # created + 1
BY ManagerAssumption DEF TypeCore, Cores

LEMMA NewId ==
  ASSUME TypeSessions, NEW k \in Users, Spawn(k)
  PROVE  /\ nextId[SessionOf[k]] \in 1..MaxIds /\ SessionOf[k] \in Sessions
         /\ <<SessionOf[k], nextId[SessionOf[k]]>> \in OwnIds(k)
         /\ <<SessionOf[k], nextId[SessionOf[k]]>> \in Ids
<1>1. SessionOf[k] \in Sessions
  BY DEF Sessions
<1>2. nextId[SessionOf[k]] \in 1..MaxIds
  BY <1>1, ManagerAssumption DEF TypeSessions, Spawn
<1>. QED BY <1>1, <1>2 DEF OwnIds, Ids

LEMMA RemoveTyped ==
  ASSUME TypeSlot, TypeCore, TypeArg, NEW k \in Callers, NEW s \in Slots, NEW p,
         slot[s].core # None, Remove(k, s, p)
  PROVE  /\ slot[s].core \in Cores
         /\ TypeSlot' /\ core' \in [Cores -> CoreRecords] /\ TypeArg'
         /\ arg'[k].id = slot[s].id /\ arg'[k].core = slot[s].core
         /\ \A j \in Callers : j # k => arg'[j] = arg[j]
         /\ \A c \in Cores : /\ core'[c].at = core[c].at /\ core'[c].id = core[c].id
                             /\ core'[c].slot = core[c].slot /\ core'[c].named = core[c].named
<1>1. slot[s] \in SlotRecords /\ slot[s].core \in Cores
  BY DEF TypeSlot, SlotRecords
<1>2. core[slot[s].core] \in CoreRecords
  BY <1>1 DEF TypeCore
<1>3. TypeSlot'
  <2>1. slot' = [slot EXCEPT ![s] = [slot[s] EXCEPT !.core = None, !.status = "closed",
                                                    !.closing = TRUE]]
    BY DEF Remove
  <2>. QED BY <1>1, <2>1, SlotRemoved, SlotSet DEF TypeSlot
<1>4. core' = [core EXCEPT ![slot[s].core] = [core[slot[s].core] EXCEPT !.stop = TRUE]]
  BY DEF Remove
<1>5. core' \in [Cores -> CoreRecords]
  BY <1>2, <1>4, CoreStopped, CoreSet
<1>6. [id |-> slot[s].id, core |-> slot[s].core] \in Args
  BY <1>1 DEF SlotRecords, Args
<1>7. /\ TypeArg' /\ arg'[k].id = slot[s].id /\ arg'[k].core = slot[s].core
      /\ \A j \in Callers : j # k => arg'[j] = arg[j]
  BY <1>6, ArgSet DEF Remove, TypeArg
<1>8. \A c \in Cores : /\ core'[c].at = core[c].at /\ core'[c].id = core[c].id
                       /\ core'[c].slot = core[c].slot /\ core'[c].named = core[c].named
  BY <1>2, <1>4 DEF TypeCore, CoreRecords
<1>. QED BY <1>1, <1>3, <1>5, <1>7, <1>8

LEMMA HolderTyped ==
  /\ Cardinality({}) <= 1
  /\ \A k : Cardinality({k}) <= 1
BY FS_EmptySet, FS_Singleton

-----------------------------------------------------------------------------
(* Types and places, action by action.                                      *)

LEMMA BaseSpawn ==
  ASSUME BaseInv, NEW k \in Users, Spawn(k) PROVE BaseInv'
<1>. USE DEF BaseInv
<1>0. k \in Callers
  BY ManagerAssumption, OwnIsId
<1>1. TypeSlot' /\ TypeCore'
  BY DEF TypeSlot, TypeCore, sessionVars, Spawn
<1>2. TypeSessions'
  <2>0. nextId[SessionOf[k]] \in 1..MaxIds
    BY NewId
  <2>1. nextId[SessionOf[k]] + 1 \in 1..(MaxIds + 1)
    BY <2>0, ManagerAssumption
  <2>2. nextId' = [nextId EXCEPT ![SessionOf[k]] = nextId[SessionOf[k]] + 1]
    BY DEF Spawn
  <2>3. known' = known \cup {<<SessionOf[k], nextId[SessionOf[k]]>>}
    BY DEF Spawn
  <2>4. nextId' \in [Sessions -> 1..(MaxIds + 1)]
    BY <2>1, <2>2 DEF TypeSessions
  <2>. QED BY <2>3, <2>4, NewId DEF TypeSessions
<1>3. TypeArg'
  <2>1. arg' = [arg EXCEPT ![k] = [arg[k] EXCEPT !.id = <<SessionOf[k], nextId[SessionOf[k]]>>]]
    BY DEF Spawn
  <2>2. arg[k] \in Args
    BY <1>0 DEF TypeArg
  <2>. QED BY <2>1, <2>2, NewId, ArgNamed, ArgSet DEF TypeArg
<1>4. TypeCaller'
  BY <1>0, HolderTyped DEF TypeCaller, Places, Spawn
<1>5. WorksOnOwn'
  <2>1. arg'[k].id = <<SessionOf[k], nextId[SessionOf[k]]>>
    BY <1>0 DEF Spawn, TypeArg, Args
  <2>2. pc'[k] = "spawning"
    BY <1>0 DEF Spawn, TypeCaller
  <2>3. \A j \in Callers : j # k => pc'[j] = pc[j] /\ arg'[j] = arg[j]
    BY DEF Spawn, TypeArg, TypeCaller
  <2>. QED BY <2>1, <2>2, <2>3, NewId DEF WorksOnOwn, Removing
<1>6. CreatedInOrder'
  BY <1>0 DEF CreatedInOrder, Spawn
<1>. QED BY <1>1, <1>2, <1>3, <1>4, <1>5, <1>6

LEMMA BaseInspect ==
  ASSUME BaseInv, NEW k \in Users, NEW id \in OwnIds(k), Inspect(k, id) PROVE BaseInv'
<1>. USE DEF BaseInv
<1>0. k \in Callers /\ id \in Ids
  BY ManagerAssumption, OwnIsId
<1>1. TypeCore' /\ TypeSessions' /\ TypeArg' /\ TypeCaller'
  BY DEF TypeCore, TypeSessions, TypeArg, TypeCaller, sessionVars, Inspect
<1>2. TypeSlot'
  BY <1>0, TakenIsASlot, TakenTyped DEF TypeSlot, SlotRecords, Statuses, Inspect
<1>3. WorksOnOwn'
  BY <1>0 DEF WorksOnOwn, Inspect
<1>4. CreatedInOrder'
  BY <1>0 DEF CreatedInOrder, Inspect
<1>. QED BY <1>1, <1>2, <1>3, <1>4

LEMMA BaseSendStarts ==
  ASSUME BaseInv, NEW k \in Users, NEW id \in OwnIds(k), SendStarts(k, id) PROVE BaseInv'
<1>. USE DEF BaseInv
<1>0. k \in Callers /\ id \in Ids
  BY ManagerAssumption, OwnIsId
<1>1. TypeSessions' /\ TypeArg' /\ TypeCaller'
  BY DEF TypeSessions, TypeArg, TypeCaller, sessionVars, SendStarts
<1>2. TypeSlot'
  <2>1. PICK s : /\ FindsOrTakes(id, s)
                 /\ slot' = [slot EXCEPT ![s] = [Taken(id, s) EXCEPT !.core = created + 1,
                                                                   !.status = "running"]]
                 /\ core' = [core EXCEPT ![created + 1] = Started(id, s, 1)]
    BY DEF SendStarts
  <2>2. s \in Slots /\ created + 1 \in Cores /\ created' = created + 1
    BY <2>1, TakenIsASlot, NewCore DEF SendStarts
  <2>. QED BY <1>0, <2>1, <2>2, TakenTyped, SlotStarted, SlotSet DEF TypeSlot
<1>3. TypeCore'
  <2>1. PICK s : /\ FindsOrTakes(id, s)
                 /\ slot' = [slot EXCEPT ![s] = [Taken(id, s) EXCEPT !.core = created + 1,
                                                                   !.status = "running"]]
                 /\ core' = [core EXCEPT ![created + 1] = Started(id, s, 1)]
    BY DEF SendStarts
  <2>2. s \in Slots /\ created + 1 \in Cores /\ created' = created + 1
    BY <2>1, TakenIsASlot, NewCore DEF SendStarts
  <2>3. 1 \in 0..QueueLen
    BY ManagerAssumption
  <2>4. core' \in [Cores -> CoreRecords]
    BY <1>0, <2>1, <2>2, <2>3, StartedTyped, CoreSet
  <2>. QED BY <2>2, <2>4, NewCore DEF TypeCore, SendStarts
<1>4. WorksOnOwn'
  BY <1>0 DEF WorksOnOwn, SendStarts
<1>5. CreatedInOrder'
  <2>1. PICK s : /\ FindsOrTakes(id, s)
                 /\ slot' = [slot EXCEPT ![s] = [Taken(id, s) EXCEPT !.core = created + 1,
                                                                   !.status = "running"]]
                 /\ core' = [core EXCEPT ![created + 1] = Started(id, s, 1)]
    BY DEF SendStarts
  <2>2. s \in Slots /\ created + 1 \in Cores /\ created' = created + 1
    BY <2>1, TakenIsASlot, NewCore DEF SendStarts
  <2>3. 1 \in 0..QueueLen
    BY ManagerAssumption
  <2>4. /\ core'[created + 1].at = "idle" /\ core'[created + 1].slot = s
        /\ core'[created + 1].id = id
        /\ \A c \in Cores : c # created + 1 => core'[c] = core[c]
    BY <1>0, <2>1, <2>2, <2>3, StartedTyped DEF TypeCore
  <2>5. \A c \in Cores : c > created' <=> c > created /\ c # created + 1
    BY <2>2, NewCore DEF SendStarts
  <2>. QED BY <1>0, <2>2, <2>4, <2>5 DEF CreatedInOrder
<1>. QED BY <1>1, <1>2, <1>3, <1>4, <1>5

LEMMA BaseSend ==
  ASSUME BaseInv, NEW k \in Users, NEW id \in OwnIds(k), Send(k, id) PROVE BaseInv'
<1>. USE DEF BaseInv
<1>0. k \in Callers /\ id \in Ids
  BY ManagerAssumption, OwnIsId
<1>1. TypeSessions' /\ TypeArg' /\ TypeCaller'
  BY DEF TypeSessions, TypeArg, TypeCaller, sessionVars, Send, Push, Finds, SlotsOf
<1>2. TypeSlot'
  BY <1>0 DEF TypeSlot, SlotRecords, Statuses, Send, Push, Finds, SlotsOf
<1>3. TypeCore'
  <2>1. PICK s \in Slots : /\ slot[s].core # None /\ core[slot[s].core].work < QueueLen
                          /\ core' = [core EXCEPT ![slot[s].core].work = @ + 1]
    BY DEF Send, Push
  <2>. DEFINE c == slot[s].core
  <2>2. c \in Cores /\ core[c] \in CoreRecords
    BY <2>1 DEF TypeSlot, SlotRecords, TypeCore
  <2>3. core' = [core EXCEPT ![c] = [core[c] EXCEPT !.work = @ + 1]]
    BY <2>1
  <2>. HIDE DEF c
  <2>4. core' \in [Cores -> CoreRecords]
    BY <2>1, <2>2, <2>3, CorePushed, CoreSet DEF c
  <2>. QED BY <2>4 DEF TypeCore, Send
<1>4. WorksOnOwn'
  BY <1>0 DEF WorksOnOwn, Send, Push, Finds, SlotsOf
<1>5. CreatedInOrder'
  BY <1>0 DEF CreatedInOrder, TypeCore, CoreRecords, Send, Push, Finds, SlotsOf
<1>. QED BY <1>1, <1>2, <1>3, <1>4, <1>5

LEMMA BaseSendWaits ==
  ASSUME BaseInv, NEW k \in Users, NEW id \in OwnIds(k), SendWaits(k, id) PROVE BaseInv'
<1>. USE DEF BaseInv
<1>0. k \in Callers /\ id \in Ids
  BY ManagerAssumption, OwnIsId
<1>1. TypeSlot' /\ TypeCore' /\ TypeSessions'
  BY DEF TypeSlot, TypeCore, TypeSessions, sessionVars, SendWaits, Finds, SlotsOf
<1>2. TypeArg'
  <2>1. PICK s \in Slots : /\ slot[s].core # None
                          /\ arg' = [arg EXCEPT ![k] = [id |-> id, core |-> slot[s].core]]
    BY DEF SendWaits
  <2>2. slot[s].core \in Cores
    BY <2>1 DEF TypeSlot, SlotRecords
  <2>3. [id |-> id, core |-> slot[s].core] \in Args
    BY <1>0, <2>2 DEF Args
  <2>. QED BY <2>1, <2>3, ArgSet DEF TypeArg
<1>3. TypeCaller'
  BY <1>0, HolderTyped DEF TypeCaller, Places, SendWaits, Finds, SlotsOf
<1>4. WorksOnOwn'
  <2>1. PICK s \in Slots : /\ slot[s].core # None
                          /\ arg' = [arg EXCEPT ![k] = [id |-> id, core |-> slot[s].core]]
    BY DEF SendWaits
  <2>2. slot[s].core \in Cores
    BY <2>1 DEF TypeSlot, SlotRecords
  <2>3. pc'[k] = "sending" /\ \A j \in Callers : j # k => pc'[j] = pc[j]
    BY <1>0 DEF SendWaits, TypeCaller
  <2>4. arg'[k].id = id /\ arg'[k].core \in Cores /\ \A j \in Callers : j # k => arg'[j] = arg[j]
    BY <1>0, <2>1, <2>2 DEF TypeArg
  <2>. QED BY <1>0, <2>3, <2>4 DEF WorksOnOwn, Removing
<1>5. CreatedInOrder'
  BY <1>0 DEF CreatedInOrder, SendWaits, Finds, SlotsOf
<1>. QED BY <1>1, <1>2, <1>3, <1>4, <1>5

LEMMA BaseCloseAgent ==
  ASSUME BaseInv, NEW k \in Users, NEW id \in OwnIds(k), CloseAgent(k, id) PROVE BaseInv'
<1>. USE DEF BaseInv
<1>0. k \in Callers /\ id \in Ids
  BY ManagerAssumption, OwnIsId
<1>1. TypeSessions'
  BY DEF TypeSessions, sessionVars, CloseAgent, Remove, Finds, SlotsOf
<1>2. TypeSlot'
  <2>1. PICK s \in Slots : Finds(id, s) /\ slot[s].core # None /\ Remove(k, s, "closing")
    BY DEF CloseAgent
  <2>2. slot[s].id = id
    BY <2>1 DEF Finds, SlotsOf
  <2>. QED BY <1>0, <2>1, RemoveTyped
<1>3. TypeCore'
  <2>1. PICK s \in Slots : Finds(id, s) /\ slot[s].core # None /\ Remove(k, s, "closing")
    BY DEF CloseAgent
  <2>2. slot[s].id = id
    BY <2>1 DEF Finds, SlotsOf
  <2>. QED BY <1>0, <2>1, RemoveTyped DEF TypeCore, CloseAgent
<1>4. TypeArg'
  <2>1. PICK s \in Slots : Finds(id, s) /\ slot[s].core # None /\ Remove(k, s, "closing")
    BY DEF CloseAgent
  <2>2. slot[s].id = id
    BY <2>1 DEF Finds, SlotsOf
  <2>. QED BY <1>0, <2>1, RemoveTyped
<1>5. TypeCaller'
  BY <1>0, HolderTyped DEF TypeCaller, Places, CloseAgent, Remove, Finds, SlotsOf
<1>6. WorksOnOwn'
  <2>1. PICK s \in Slots : Finds(id, s) /\ slot[s].core # None /\ Remove(k, s, "closing")
    BY DEF CloseAgent
  <2>2. slot[s].id = id
    BY <2>1 DEF Finds, SlotsOf
  <2>3. pc'[k] = "closing" /\ \A j \in Callers : j # k => pc'[j] = pc[j]
    BY <1>0, <2>1 DEF Remove, TypeCaller
  <2>4. arg'[k].id = id /\ arg'[k].core \in Cores /\ \A j \in Callers : j # k => arg'[j] = arg[j]
    BY <1>0, <2>1, <2>2, RemoveTyped
  <2>. QED BY <1>0, <2>3, <2>4 DEF WorksOnOwn, Removing
<1>7. CreatedInOrder'
  <2>1. PICK s \in Slots : Finds(id, s) /\ slot[s].core # None /\ Remove(k, s, "closing")
    BY DEF CloseAgent
  <2>2. slot[s].id = id
    BY <2>1 DEF Finds, SlotsOf
  <2>. QED BY <1>0, <2>1, RemoveTyped DEF CreatedInOrder, CloseAgent
<1>. QED BY <1>1, <1>2, <1>3, <1>4, <1>5, <1>6, <1>7

LEMMA BaseCloseStopped ==
  ASSUME BaseInv, NEW k \in Users, NEW id \in OwnIds(k), CloseStopped(k, id) PROVE BaseInv'
<1>. USE DEF BaseInv
<1>0. k \in Callers /\ id \in Ids
  BY ManagerAssumption, OwnIsId
<1>1. TypeCore' /\ TypeSessions' /\ TypeArg' /\ TypeCaller'
  BY DEF TypeCore, TypeSessions, TypeArg, TypeCaller, sessionVars, CloseStopped, Finds, SlotsOf
<1>2. TypeSlot'
  BY <1>0 DEF TypeSlot, SlotRecords, Statuses, CloseStopped, Finds, SlotsOf
<1>3. WorksOnOwn'
  BY <1>0 DEF WorksOnOwn, CloseStopped, Finds, SlotsOf
<1>4. CreatedInOrder'
  BY <1>0 DEF CreatedInOrder, CloseStopped, Finds, SlotsOf
<1>. QED BY <1>1, <1>2, <1>3, <1>4

LEMMA BaseDeleteAgent ==
  ASSUME BaseInv, NEW k \in Users, NEW id \in OwnIds(k), DeleteAgent(k, id) PROVE BaseInv'
<1>. USE DEF BaseInv
<1>0. k \in Callers /\ id \in Ids
  BY ManagerAssumption, OwnIsId
<1>1. TypeSlot' /\ TypeCore' /\ TypeSessions'
  BY DEF TypeSlot, TypeCore, TypeSessions, sessionVars, DeleteAgent
<1>2. TypeArg'
  BY <1>0, RecordsTyped DEF TypeArg, Args, DeleteAgent
<1>3. TypeCaller'
  BY <1>0, HolderTyped DEF TypeCaller, Places, DeleteAgent
<1>4. WorksOnOwn'
  BY <1>0 DEF WorksOnOwn, TypeCaller, Places, TypeArg, Args, Removing, DeleteAgent
<1>5. CreatedInOrder'
  BY <1>0 DEF CreatedInOrder, DeleteAgent
<1>. QED BY <1>1, <1>2, <1>3, <1>4, <1>5

LEMMA BaseSpawnStarts ==
  ASSUME BaseInv, NEW k \in Callers, SpawnStarts(k) PROVE BaseInv'
<1>. USE DEF BaseInv
<1>1. TypeSessions'
  BY DEF TypeSessions, sessionVars, SpawnStarts, Return
<1>2. TypeSlot'
  <2>. DEFINE s == FirstSlot
  <2>1. /\ slot' = [slot EXCEPT ![s] = [id |-> arg[k].id, status |-> "running",
                                         closing |-> FALSE, core |-> created + 1]]
        /\ core' = [core EXCEPT ![created + 1] = Started(arg[k].id, s, 1)]
    BY DEF SpawnStarts
  <2>2. s \in Slots /\ created + 1 \in Cores /\ created' = created + 1
    BY FirstSlotIsFree, NewCore DEF SpawnStarts
  <2>0. arg[k].id \in Ids
    BY OwnIsId DEF WorksOnOwn, SpawnStarts
  <2>. HIDE DEF s
  <2>3. [id |-> arg[k].id, status |-> "running", closing |-> FALSE, core |-> created + 1]
          \in SlotRecords
    BY <2>0, <2>2 DEF SlotRecords, Statuses
  <2>. QED BY <2>1, <2>2, <2>3, SlotSet DEF TypeSlot
<1>3. TypeCore'
  <2>. DEFINE s == FirstSlot
  <2>1. /\ slot' = [slot EXCEPT ![s] = [id |-> arg[k].id, status |-> "running",
                                         closing |-> FALSE, core |-> created + 1]]
        /\ core' = [core EXCEPT ![created + 1] = Started(arg[k].id, s, 1)]
    BY DEF SpawnStarts
  <2>2. s \in Slots /\ created + 1 \in Cores /\ created' = created + 1
    BY FirstSlotIsFree, NewCore DEF SpawnStarts
  <2>0. arg[k].id \in Ids
    BY OwnIsId DEF WorksOnOwn, SpawnStarts
  <2>. HIDE DEF s
  <2>3. 1 \in 0..QueueLen
    BY ManagerAssumption
  <2>4. core' \in [Cores -> CoreRecords]
    BY <2>0, <2>1, <2>2, <2>3, StartedTyped, CoreSet
  <2>. QED BY <2>2, <2>4, NewCore DEF TypeCore, SpawnStarts
<1>4. TypeArg'
  BY RecordsTyped DEF TypeArg, Args, SpawnStarts, Return
<1>5. TypeCaller'
  BY HolderTyped DEF TypeCaller, Places, SpawnStarts, Return
<1>6. WorksOnOwn'
  BY DEF WorksOnOwn, TypeCaller, Places, TypeArg, Args, Removing, SpawnStarts, Return
<1>7. CreatedInOrder'
  <2>. DEFINE s == FirstSlot
  <2>1. /\ slot' = [slot EXCEPT ![s] = [id |-> arg[k].id, status |-> "running",
                                         closing |-> FALSE, core |-> created + 1]]
        /\ core' = [core EXCEPT ![created + 1] = Started(arg[k].id, s, 1)]
    BY DEF SpawnStarts
  <2>2. s \in Slots /\ created + 1 \in Cores /\ created' = created + 1
    BY FirstSlotIsFree, NewCore DEF SpawnStarts
  <2>0. arg[k].id \in Ids
    BY OwnIsId DEF WorksOnOwn, SpawnStarts
  <2>. HIDE DEF s
  <2>3. 1 \in 0..QueueLen
    BY ManagerAssumption
  <2>4. /\ core'[created + 1].at = "idle" /\ core'[created + 1].slot = s
        /\ core'[created + 1].id = arg[k].id
        /\ \A c \in Cores : c # created + 1 => core'[c] = core[c]
    BY <2>0, <2>1, <2>2, <2>3, StartedTyped DEF TypeCore
  <2>5. \A c \in Cores : c > created' <=> c > created /\ c # created + 1
    BY <2>2, NewCore DEF SpawnStarts
  <2>. QED BY <2>0, <2>2, <2>4, <2>5 DEF CreatedInOrder
<1>. QED BY <1>1, <1>2, <1>3, <1>4, <1>5, <1>6, <1>7

LEMMA BaseSpawnFails ==
  ASSUME BaseInv, NEW k \in Callers, SpawnFails(k) PROVE BaseInv'
<1>. USE DEF BaseInv
<1>1. TypeCore' /\ TypeSessions'
  BY DEF TypeCore, TypeSessions, sessionVars, SpawnFails, Return
<1>2. TypeSlot'
  BY RecordsTyped, SlotSet DEF SpawnFails, TypeSlot
<1>3. TypeArg'
  BY RecordsTyped DEF TypeArg, Args, SpawnFails, Return
<1>4. TypeCaller'
  BY HolderTyped DEF TypeCaller, Places, SpawnFails, Return
<1>5. WorksOnOwn'
  BY DEF WorksOnOwn, TypeCaller, Places, TypeArg, Args, Removing, SpawnFails, Return
<1>6. CreatedInOrder'
  BY DEF CreatedInOrder, SpawnFails, Return
<1>. QED BY <1>1, <1>2, <1>3, <1>4, <1>5, <1>6

LEMMA BaseSendEnds ==
  ASSUME BaseInv, NEW k \in Callers, SendEnds(k) PROVE BaseInv'
<1>. USE DEF BaseInv
<1>1. TypeSessions'
  BY DEF TypeSessions, sessionVars, SendEnds, Push, Return
<1>2. TypeSlot'
  BY DEF TypeSlot, SlotRecords, Statuses, SendEnds, Push, Return
<1>3. TypeCore'
  <2>. DEFINE c == arg[k].core
  <2>1. c \in Cores /\ core[c] \in CoreRecords
    BY DEF SendEnds, WorksOnOwn, TypeCore
  <2>2. core' = core \/ (core[c].work < QueueLen /\ core' = [core EXCEPT ![c] = [core[c] EXCEPT !.work = @ + 1]])
    BY DEF SendEnds, Push
  <2>. HIDE DEF c
  <2>3. core' \in [Cores -> CoreRecords]
    BY <2>1, <2>2, CorePushed, CoreSet DEF TypeCore
  <2>. QED BY <2>3 DEF TypeCore, SendEnds
<1>4. TypeArg'
  BY RecordsTyped DEF TypeArg, Args, SendEnds, Push, Return
<1>5. TypeCaller'
  BY HolderTyped DEF TypeCaller, Places, SendEnds, Push, Return
<1>6. WorksOnOwn'
  BY DEF WorksOnOwn, TypeCaller, Places, TypeArg, Args, Removing, SendEnds, Push, Return
<1>7. CreatedInOrder'
  BY DEF CreatedInOrder, TypeCore, CoreRecords, SendEnds, Push, Return
<1>. QED BY <1>1, <1>2, <1>3, <1>4, <1>5, <1>6, <1>7

LEMMA BasePostRoot ==
  ASSUME BaseInv, NEW k \in Callers, PostRoot(k) PROVE BaseInv'
<1>. USE DEF BaseInv
<1>1. TypeSlot' /\ TypeCore' /\ TypeSessions' /\ TypeArg'
  BY DEF TypeSlot, TypeCore, TypeSessions, TypeArg, sessionVars, PostRoot
<1>2. TypeCaller'
  <2>1. pc' \in [Callers -> Places] /\ updating' = updating /\ leaked' = leaked
    BY DEF TypeCaller, Places, PostRoot, Return
  <2>2. holder' \subseteq Callers \cup Cores /\ Cardinality(holder') <= 1
    BY HolderTyped DEF TypeCaller, PostRoot
  <2>3. rootWork' \in 0..QueueLen
    BY ManagerAssumption DEF TypeCaller, PostRoot
  <2>. QED BY <2>1, <2>2, <2>3 DEF TypeCaller
<1>3. WorksOnOwn'
  BY DEF WorksOnOwn, TypeCaller, Places, TypeArg, Args, Removing, PostRoot
<1>4. CreatedInOrder'
  BY DEF CreatedInOrder, PostRoot
<1>. QED BY <1>1, <1>2, <1>3, <1>4

LEMMA BasePostEnds ==
  ASSUME BaseInv, NEW k \in Callers, PostEnds(k) PROVE BaseInv'
<1>. USE DEF BaseInv
<1>1. TypeSlot' /\ TypeCore' /\ TypeSessions'
  BY DEF TypeSlot, TypeCore, TypeSessions, sessionVars, PostEnds, Return
<1>2. TypeArg'
  BY RecordsTyped DEF TypeArg, Args, PostEnds, Return
<1>3. TypeCaller'
  <2>1. pc' \in [Callers -> Places] /\ updating' = updating /\ leaked' = leaked
    BY DEF TypeCaller, Places, PostEnds, Return
  <2>2. holder' \subseteq Callers \cup Cores /\ Cardinality(holder') <= 1
    BY HolderTyped DEF TypeCaller, PostEnds
  <2>3. rootWork' \in 0..QueueLen
    BY ManagerAssumption DEF TypeCaller, PostEnds
  <2>. QED BY <2>1, <2>2, <2>3 DEF TypeCaller
<1>4. WorksOnOwn'
  BY DEF WorksOnOwn, TypeCaller, Places, TypeArg, Args, Removing, PostEnds, Return
<1>5. CreatedInOrder'
  BY DEF CreatedInOrder, PostEnds, Return
<1>. QED BY <1>1, <1>2, <1>3, <1>4, <1>5

LEMMA BaseCloseEnds ==
  ASSUME BaseInv, NEW k \in Callers, CloseEnds(k) PROVE BaseInv'
<1>. USE DEF BaseInv
<1>1. TypeCore' /\ TypeSessions'
  BY DEF TypeCore, TypeSessions, sessionVars, CloseEnds, Mark, Return
<1>2. TypeSlot'
  BY DEF TypeSlot, SlotRecords, Statuses, CloseEnds, Mark, Return
<1>3. TypeArg'
  BY RecordsTyped DEF TypeArg, Args, CloseEnds, Mark, Return
<1>4. TypeCaller'
  BY HolderTyped DEF TypeCaller, Places, CloseEnds, Mark, Return
<1>5. WorksOnOwn'
  BY DEF WorksOnOwn, TypeCaller, Places, TypeArg, Args, Removing, CloseEnds, Mark, Return
<1>6. CreatedInOrder'
  BY DEF CreatedInOrder, CloseEnds, Mark, Return
<1>. QED BY <1>1, <1>2, <1>3, <1>4, <1>5, <1>6

LEMMA BaseDestroyTimeout ==
  ASSUME BaseInv, NEW k \in Callers, DestroyTimeout(k) PROVE BaseInv'
<1>. USE DEF BaseInv
<1>1. TypeCore' /\ TypeSessions'
  BY DEF TypeCore, TypeSessions, sessionVars, DestroyTimeout, Mark, Return
<1>2. TypeSlot'
  BY DEF TypeSlot, SlotRecords, Statuses, DestroyTimeout, Mark, Return
<1>3. TypeArg'
  BY RecordsTyped DEF TypeArg, Args, DestroyTimeout, Mark, Return
<1>4. TypeCaller'
  <2>1. arg[k].core \in Cores
    BY DEF DestroyTimeout, WorksOnOwn, Removing
  <2>. QED BY <2>1 DEF TypeCaller, Places, DestroyTimeout, Return
<1>5. WorksOnOwn'
  BY DEF WorksOnOwn, TypeCaller, Places, TypeArg, Args, Removing, DestroyTimeout, Mark, Return
<1>6. CreatedInOrder'
  BY DEF CreatedInOrder, DestroyTimeout, Mark, Return
<1>. QED BY <1>1, <1>2, <1>3, <1>4, <1>5, <1>6

LEMMA BaseDeleteRefused ==
  ASSUME BaseInv, NEW k \in Callers, DeleteRefused(k) PROVE BaseInv'
<1>. USE DEF BaseInv
<1>1. TypeSlot' /\ TypeCore' /\ TypeSessions'
  BY DEF TypeSlot, TypeCore, TypeSessions, sessionVars, DeleteRefused, Return
<1>2. TypeArg'
  BY RecordsTyped DEF TypeArg, Args, DeleteRefused, Return
<1>3. TypeCaller'
  BY HolderTyped DEF TypeCaller, Places, DeleteRefused, Return
<1>4. WorksOnOwn'
  BY DEF WorksOnOwn, TypeCaller, Places, TypeArg, Args, Removing, DeleteRefused, Return
<1>5. CreatedInOrder'
  BY DEF CreatedInOrder, DeleteRefused, Return
<1>. QED BY <1>1, <1>2, <1>3, <1>4, <1>5

LEMMA BaseDeleteMarks ==
  ASSUME BaseInv, NEW k \in Callers, DeleteMarks(k) PROVE BaseInv'
<1>. USE DEF BaseInv
<1>1. TypeSessions'
  BY DEF TypeSessions, sessionVars, DeleteMarks, Remove, Goto
<1>2. TypeSlot'
  <2>1. CASE \E s \in Slots : /\ Finds(arg[k].id, s) /\ ~slot[s].closing /\ slot[s].core # None
                             /\ Remove(k, s, "deleting")
    <3>1. PICK s \in Slots : Finds(arg[k].id, s) /\ slot[s].core # None /\ Remove(k, s, "deleting")
      BY <2>1
    <3>. QED BY <3>1, RemoveTyped
  <2>2. CASE /\ slot' = [s \in Slots |-> [slot[s] EXCEPT !.closing = @ \/ Finds(arg[k].id, s)]]
             /\ Goto(k, "purging") /\ UNCHANGED core
    <3>1. \A s \in Slots : [slot[s] EXCEPT !.closing = @ \/ Finds(arg[k].id, s)] \in SlotRecords
      BY DEF TypeSlot, SlotRecords
    <3>. QED BY <2>2, <3>1 DEF TypeSlot
  <2>. QED BY <2>1, <2>2 DEF DeleteMarks
<1>3. TypeCore'
  <2>1. CASE \E s \in Slots : /\ Finds(arg[k].id, s) /\ ~slot[s].closing /\ slot[s].core # None
                             /\ Remove(k, s, "deleting")
    <3>1. PICK s \in Slots : Finds(arg[k].id, s) /\ slot[s].core # None /\ Remove(k, s, "deleting")
      BY <2>1
    <3>. QED BY <3>1, RemoveTyped DEF TypeCore, DeleteMarks
  <2>2. CASE /\ slot' = [s \in Slots |-> [slot[s] EXCEPT !.closing = @ \/ Finds(arg[k].id, s)]]
             /\ Goto(k, "purging") /\ UNCHANGED core
    <3>. QED BY <2>2 DEF TypeCore, DeleteMarks
  <2>. QED BY <2>1, <2>2 DEF DeleteMarks
<1>4. TypeArg'
  <2>1. CASE \E s \in Slots : /\ Finds(arg[k].id, s) /\ ~slot[s].closing /\ slot[s].core # None
                             /\ Remove(k, s, "deleting")
    <3>1. PICK s \in Slots : Finds(arg[k].id, s) /\ slot[s].core # None /\ Remove(k, s, "deleting")
      BY <2>1
    <3>. QED BY <3>1, RemoveTyped
  <2>2. CASE /\ slot' = [s \in Slots |-> [slot[s] EXCEPT !.closing = @ \/ Finds(arg[k].id, s)]]
             /\ Goto(k, "purging") /\ UNCHANGED core
    <3>. QED BY <2>2 DEF Goto, TypeArg
  <2>. QED BY <2>1, <2>2 DEF DeleteMarks
<1>5. TypeCaller'
  BY HolderTyped DEF TypeCaller, Places, DeleteMarks, Remove, Goto
<1>6. WorksOnOwn'
  <2>1. CASE \E s \in Slots : /\ Finds(arg[k].id, s) /\ ~slot[s].closing /\ slot[s].core # None
                             /\ Remove(k, s, "deleting")
    <3>1. PICK s \in Slots : Finds(arg[k].id, s) /\ slot[s].core # None /\ Remove(k, s, "deleting")
      BY <2>1
    <3>2. slot[s].id = arg[k].id /\ k \in Users /\ arg[k].id \in OwnIds(k)
      BY <3>1 DEF Finds, SlotsOf, DeleteMarks, WorksOnOwn
    <3>3. pc'[k] = "deleting" /\ \A j \in Callers : j # k => pc'[j] = pc[j]
      BY <3>1 DEF Remove, TypeCaller
    <3>4. /\ arg'[k].id = arg[k].id /\ arg'[k].core \in Cores
          /\ \A j \in Callers : j # k => arg'[j] = arg[j]
      BY <3>1, <3>2, RemoveTyped
    <3>. QED BY <3>2, <3>3, <3>4 DEF WorksOnOwn, Removing
  <2>2. CASE /\ slot' = [s \in Slots |-> [slot[s] EXCEPT !.closing = @ \/ Finds(arg[k].id, s)]]
             /\ Goto(k, "purging") /\ UNCHANGED core
    <3>. QED BY <2>2 DEF Goto, DeleteMarks, WorksOnOwn, Removing, TypeCaller
  <2>. QED BY <2>1, <2>2 DEF DeleteMarks
<1>7. CreatedInOrder'
  <2>1. CASE \E s \in Slots : /\ Finds(arg[k].id, s) /\ ~slot[s].closing /\ slot[s].core # None
                             /\ Remove(k, s, "deleting")
    <3>1. PICK s \in Slots : Finds(arg[k].id, s) /\ slot[s].core # None /\ Remove(k, s, "deleting")
      BY <2>1
    <3>. QED BY <3>1, RemoveTyped DEF CreatedInOrder, DeleteMarks
  <2>2. CASE /\ slot' = [s \in Slots |-> [slot[s] EXCEPT !.closing = @ \/ Finds(arg[k].id, s)]]
             /\ Goto(k, "purging") /\ UNCHANGED core
    <3>. QED BY <2>2 DEF CreatedInOrder, DeleteMarks
  <2>. QED BY <2>1, <2>2 DEF DeleteMarks
<1>. QED BY <1>1, <1>2, <1>3, <1>4, <1>5, <1>6, <1>7

LEMMA BaseDeleteStopped ==
  ASSUME BaseInv, NEW k \in Callers, DeleteStopped(k) PROVE BaseInv'
<1>. USE DEF BaseInv
<1>1. TypeCore' /\ TypeSessions' /\ TypeArg'
  BY DEF TypeCore, TypeSessions, TypeArg, sessionVars, DeleteStopped, Mark, Goto
<1>2. TypeSlot'
  BY DEF TypeSlot, SlotRecords, Statuses, DeleteStopped, Mark, Goto
<1>3. TypeCaller'
  BY HolderTyped DEF TypeCaller, Places, DeleteStopped, Mark, Goto
<1>4. WorksOnOwn'
  BY DEF WorksOnOwn, TypeCaller, Places, TypeArg, Args, Removing, DeleteStopped, Mark, Goto
<1>5. CreatedInOrder'
  BY DEF CreatedInOrder, DeleteStopped, Mark, Goto
<1>. QED BY <1>1, <1>2, <1>3, <1>4, <1>5

LEMMA BasePurge ==
  ASSUME BaseInv, NEW k \in Callers, Purge(k) PROVE BaseInv'
<1>. USE DEF BaseInv
<1>1. TypeSlot' /\ TypeCore' /\ TypeArg'
  BY DEF TypeSlot, TypeCore, TypeArg, sessionVars, Purge, Goto
<1>2. TypeSessions'
  BY ManagerAssumption DEF TypeSessions, sessionVars, Purge, Goto
<1>3. TypeCaller'
  BY HolderTyped DEF TypeCaller, Places, Purge, Goto
<1>4. WorksOnOwn'
  BY DEF WorksOnOwn, TypeCaller, Places, TypeArg, Args, Removing, Purge, Goto
<1>5. CreatedInOrder'
  BY DEF CreatedInOrder, Purge, Goto
<1>. QED BY <1>1, <1>2, <1>3, <1>4, <1>5

LEMMA BaseUnmark ==
  ASSUME BaseInv, NEW k \in Callers, Unmark(k) PROVE BaseInv'
<1>. USE DEF BaseInv
<1>1. TypeCore' /\ TypeSessions'
  BY DEF TypeCore, TypeSessions, sessionVars, Unmark, Mark, Return
<1>2. TypeSlot'
  BY DEF TypeSlot, SlotRecords, Statuses, Unmark, Mark, Return
<1>3. TypeArg'
  BY RecordsTyped DEF TypeArg, Args, Unmark, Mark, Return
<1>4. TypeCaller'
  BY HolderTyped DEF TypeCaller, Places, Unmark, Mark, Return
<1>5. WorksOnOwn'
  BY DEF WorksOnOwn, TypeCaller, Places, TypeArg, Args, Removing, Unmark, Mark, Return
<1>6. CreatedInOrder'
  BY DEF CreatedInOrder, Unmark, Mark, Return
<1>. QED BY <1>1, <1>2, <1>3, <1>4, <1>5, <1>6

LEMMA BaseClear ==
  ASSUME BaseInv, NEW k \in Callers, Clear(k) PROVE BaseInv'
<1>. USE DEF BaseInv
<1>1. TypeCore' /\ TypeSessions'
  BY DEF TypeCore, TypeSessions, sessionVars, Clear, Return
<1>2. TypeSlot'
  BY RecordsTyped DEF Clear, TypeSlot
<1>3. TypeArg'
  BY RecordsTyped DEF TypeArg, Args, Clear, Return
<1>4. TypeCaller'
  BY HolderTyped DEF TypeCaller, Places, Clear, Return
<1>5. WorksOnOwn'
  BY DEF WorksOnOwn, TypeCaller, Places, TypeArg, Args, Removing, Clear, Return
<1>6. CreatedInOrder'
  BY DEF CreatedInOrder, Clear, Return
<1>. QED BY <1>1, <1>2, <1>3, <1>4, <1>5, <1>6

LEMMA BaseUpdate ==
  ASSUME BaseInv, NEW k \in Callers, Update(k) PROVE BaseInv'
<1>. USE DEF BaseInv
<1>1. TypeSlot' /\ TypeCore' /\ TypeSessions' /\ TypeArg'
  BY DEF TypeSlot, TypeCore, TypeSessions, TypeArg, sessionVars, Update, Goto
<1>2. TypeCaller'
  <2>1. pc' \in [Callers -> Places] /\ rootWork' = rootWork /\ leaked' = leaked
    BY DEF TypeCaller, Places, Update, Goto
  <2>2. holder' \subseteq Callers \cup Cores /\ Cardinality(holder') <= 1
    BY HolderTyped DEF Update
  <2>3. updating' \subseteq Cores
    BY DEF Update, TypeSlot, SlotRecords
  <2>. QED BY <2>1, <2>2, <2>3 DEF TypeCaller
<1>3. WorksOnOwn'
  BY DEF WorksOnOwn, TypeCaller, Places, TypeArg, Args, Removing, Update, Goto
<1>4. CreatedInOrder'
  BY DEF CreatedInOrder, Update, Goto
<1>. QED BY <1>1, <1>2, <1>3, <1>4

LEMMA BaseUpdateCore ==
  ASSUME BaseInv, NEW k \in Callers, NEW c \in Cores, UpdateCore(k, c) PROVE BaseInv'
<1>. USE DEF BaseInv
<1>1. TypeSlot' /\ TypeCore' /\ TypeSessions' /\ TypeArg'
  BY DEF TypeSlot, TypeCore, TypeSessions, TypeArg, sessionVars, UpdateCore
<1>2. TypeCaller'
  BY HolderTyped DEF TypeCaller, Places, UpdateCore
<1>3. WorksOnOwn'
  BY DEF WorksOnOwn, TypeCaller, Places, TypeArg, Args, Removing, UpdateCore
<1>4. CreatedInOrder'
  BY DEF CreatedInOrder, UpdateCore
<1>. QED BY <1>1, <1>2, <1>3, <1>4

LEMMA BaseUpdateEnds ==
  ASSUME BaseInv, NEW k \in Callers, UpdateEnds(k) PROVE BaseInv'
<1>. USE DEF BaseInv
<1>1. TypeSlot' /\ TypeCore' /\ TypeSessions'
  BY DEF TypeSlot, TypeCore, TypeSessions, sessionVars, UpdateEnds, Return
<1>2. TypeArg'
  BY RecordsTyped DEF TypeArg, Args, UpdateEnds, Return
<1>3. TypeCaller'
  BY HolderTyped DEF TypeCaller, Places, UpdateEnds, Return
<1>4. WorksOnOwn'
  BY DEF WorksOnOwn, TypeCaller, Places, TypeArg, Args, Removing, UpdateEnds, Return
<1>5. CreatedInOrder'
  BY DEF CreatedInOrder, UpdateEnds, Return
<1>. QED BY <1>1, <1>2, <1>3, <1>4, <1>5

LEMMA BaseLoop ==
  ASSUME BaseInv, NEW c \in Cores, Loop(c) PROVE BaseInv'
<1>. USE DEF BaseInv
<1>1. TypeSlot' /\ TypeSessions' /\ TypeArg' /\ TypeCaller'
  BY DEF TypeSlot, TypeSessions, TypeArg, TypeCaller, sessionVars, Loop, Core
<1>2. TypeCore'
  BY DEF TypeCore, CoreRecords, Loop, Core
<1>3. WorksOnOwn'
  BY DEF WorksOnOwn, Loop, Core
<1>4. CreatedInOrder'
  BY DEF CreatedInOrder, TypeCore, CoreRecords, Loop, Core
<1>. QED BY <1>1, <1>2, <1>3, <1>4

LEMMA BaseChat ==
  ASSUME BaseInv, NEW c \in Cores, Chat(c) PROVE BaseInv'
<1>. USE DEF BaseInv
<1>1. TypeSlot' /\ TypeSessions' /\ TypeArg' /\ TypeCaller'
  BY DEF TypeSlot, TypeSessions, TypeArg, TypeCaller, sessionVars, Chat, Core
<1>2. TypeCore'
  BY DEF TypeCore, CoreRecords, Chat, Core
<1>3. WorksOnOwn'
  BY DEF WorksOnOwn, Chat, Core
<1>4. CreatedInOrder'
  BY DEF CreatedInOrder, TypeCore, CoreRecords, Chat, Core
<1>. QED BY <1>1, <1>2, <1>3, <1>4

LEMMA BaseTurnFails ==
  ASSUME BaseInv, NEW c \in Cores, TurnFails(c) PROVE BaseInv'
<1>. USE DEF BaseInv
<1>1. TypeSlot' /\ TypeSessions' /\ TypeArg' /\ TypeCaller'
  BY DEF TypeSlot, TypeSessions, TypeArg, TypeCaller, sessionVars, TurnFails, Core
<1>2. TypeCore'
  BY DEF TypeCore, CoreRecords, TurnFails, Core
<1>3. WorksOnOwn'
  BY DEF WorksOnOwn, TurnFails, Core
<1>4. CreatedInOrder'
  BY DEF CreatedInOrder, TypeCore, CoreRecords, TurnFails, Core
<1>. QED BY <1>1, <1>2, <1>3, <1>4

LEMMA BaseTurnEnds ==
  ASSUME BaseInv, NEW c \in Cores, TurnEnds(c) PROVE BaseInv'
<1>. USE DEF BaseInv
<1>1. TypeSlot' /\ TypeSessions' /\ TypeArg' /\ TypeCaller'
  BY DEF TypeSlot, TypeSessions, TypeArg, TypeCaller, sessionVars, TurnEnds
<1>2. TypeCore'
  BY DEF TypeCore, CoreRecords, TurnEnds
<1>3. WorksOnOwn'
  BY DEF WorksOnOwn, TurnEnds
<1>4. CreatedInOrder'
  BY DEF CreatedInOrder, TypeCore, CoreRecords, TurnEnds
<1>. QED BY <1>1, <1>2, <1>3, <1>4

LEMMA BaseSilenced ==
  ASSUME BaseInv, NEW c \in Cores, Silenced(c) PROVE BaseInv'
<1>. USE DEF BaseInv
<1>1. TypeSlot' /\ TypeSessions' /\ TypeArg' /\ TypeCaller'
  BY DEF TypeSlot, TypeSessions, TypeArg, TypeCaller, sessionVars, Silenced
<1>2. TypeCore'
  <2>1. core' = [core EXCEPT ![c] = [core[c] EXCEPT !.at = "idle", !.named = None]]
    BY DEF Silenced
  <2>2. core[c] \in CoreRecords
    BY DEF TypeCore
  <2>3. core' \in [Cores -> CoreRecords]
    BY <2>1, <2>2, CoreSilent, CoreSet
  <2>. QED BY <2>3 DEF TypeCore, Silenced
<1>3. WorksOnOwn'
  BY DEF WorksOnOwn, Silenced
<1>4. CreatedInOrder'
  BY DEF CreatedInOrder, TypeCore, CoreRecords, Silenced
<1>. QED BY <1>1, <1>2, <1>3, <1>4

LEMMA BaseReport ==
  ASSUME BaseInv, NEW c \in Cores, Report(c) PROVE BaseInv'
<1>. USE DEF BaseInv
<1>1. TypeSessions' /\ TypeArg'
  BY DEF TypeSessions, TypeArg, sessionVars, Report
<1>2. TypeSlot'
  BY DEF TypeSlot, SlotRecords, Statuses, Report
<1>3. TypeCore'
  BY DEF TypeCore, CoreRecords, Report
<1>4. TypeCaller'
  BY HolderTyped DEF TypeCaller, Places, Report
<1>5. WorksOnOwn'
  BY DEF WorksOnOwn, TypeCaller, Places, TypeArg, Args, Removing, Report
<1>6. CreatedInOrder'
  BY DEF CreatedInOrder, TypeCore, CoreRecords, Report
<1>. QED BY <1>1, <1>2, <1>3, <1>4, <1>5, <1>6

LEMMA BaseReportEnds ==
  ASSUME BaseInv, NEW c \in Cores, ReportEnds(c) PROVE BaseInv'
<1>. USE DEF BaseInv
<1>1. TypeSlot' /\ TypeSessions' /\ TypeArg'
  BY DEF TypeSlot, TypeSessions, TypeArg, sessionVars, ReportEnds
<1>2. TypeCore'
  <2>1. core' = [core EXCEPT ![c] = [core[c] EXCEPT !.at = "idle", !.named = None]]
    BY DEF ReportEnds
  <2>2. core[c] \in CoreRecords
    BY DEF TypeCore
  <2>3. core' \in [Cores -> CoreRecords]
    BY <2>1, <2>2, CoreSilent, CoreSet
  <2>. QED BY <2>3 DEF TypeCore, ReportEnds
<1>3. TypeCaller'
  <2>1. pc' \in [Callers -> Places] /\ updating' = updating /\ leaked' = leaked
    BY DEF TypeCaller, Places, ReportEnds, Return
  <2>2. holder' \subseteq Callers \cup Cores /\ Cardinality(holder') <= 1
    BY HolderTyped DEF TypeCaller, ReportEnds
  <2>3. rootWork' \in 0..QueueLen
    BY ManagerAssumption DEF TypeCaller, ReportEnds
  <2>. QED BY <2>1, <2>2, <2>3 DEF TypeCaller
<1>4. WorksOnOwn'
  BY DEF WorksOnOwn, TypeCaller, Places, TypeArg, Args, Removing, ReportEnds
<1>5. CreatedInOrder'
  BY DEF CreatedInOrder, TypeCore, CoreRecords, ReportEnds
<1>. QED BY <1>1, <1>2, <1>3, <1>4, <1>5

LEMMA BaseRootTakes ==
  ASSUME BaseInv, RootTakes PROVE BaseInv'
<1>. USE DEF BaseInv
<1>1. TypeSlot' /\ TypeCore' /\ TypeSessions' /\ TypeArg'
  BY DEF TypeSlot, TypeCore, TypeSessions, TypeArg, sessionVars, RootTakes
<1>2. TypeCaller'
  <2>1. pc' \in [Callers -> Places] /\ updating' = updating /\ leaked' = leaked
    BY DEF TypeCaller, Places, RootTakes, Return
  <2>2. holder' \subseteq Callers \cup Cores /\ Cardinality(holder') <= 1
    BY HolderTyped DEF TypeCaller, RootTakes
  <2>3. rootWork' \in 0..QueueLen
    BY ManagerAssumption DEF TypeCaller, RootTakes
  <2>. QED BY <2>1, <2>2, <2>3 DEF TypeCaller
<1>3. WorksOnOwn'
  BY DEF WorksOnOwn, TypeCaller, Places, TypeArg, Args, Removing, RootTakes
<1>4. CreatedInOrder'
  BY DEF CreatedInOrder, RootTakes
<1>. QED BY <1>1, <1>2, <1>3, <1>4

-----------------------------------------------------------------------------
(* Type correctness.                                                        *)

LEMMA BaseInit == Init => BaseInv
<1>. SUFFICES ASSUME Init PROVE BaseInv
  OBVIOUS
<1>1. TypeSlot
  BY RecordsTyped DEF Init, TypeSlot
<1>2. TypeCore
  BY RecordsTyped, ManagerAssumption DEF Init, TypeCore
<1>3. TypeSessions
  BY ManagerAssumption DEF Init, TypeSessions
<1>4. TypeArg
  BY RecordsTyped DEF Init, TypeArg
<1>5. TypeCaller
  BY HolderTyped, ManagerAssumption DEF Init, TypeCaller, Places
<1>6. WorksOnOwn
  BY DEF Init, WorksOnOwn, Removing
<1>7. CreatedInOrder
  BY ManagerAssumption DEF Init, CreatedInOrder, Cores, Unborn
<1>. QED BY <1>1, <1>2, <1>3, <1>4, <1>5, <1>6, <1>7 DEF BaseInv

LEMMA BaseUsing == ASSUME BaseInv, NEW k \in Users, Using(k) PROVE BaseInv'
<1>1. CASE Spawn(k)
  BY <1>1, BaseSpawn
<1>2. ASSUME NEW id \in OwnIds(k),
             \/ Inspect(k, id) \/ SendStarts(k, id) \/ Send(k, id) \/ SendWaits(k, id)
             \/ CloseAgent(k, id) \/ CloseStopped(k, id) \/ DeleteAgent(k, id)
      PROVE  BaseInv'
  BY <1>2, BaseInspect, BaseSendStarts, BaseSend, BaseSendWaits, BaseCloseAgent,
     BaseCloseStopped, BaseDeleteAgent
<1>. QED BY <1>1, <1>2 DEF Using, OwnIds

LEMMA BaseProceeding == ASSUME BaseInv, NEW k \in Callers, Proceeding(k) PROVE BaseInv'
BY BaseSpawnStarts, BaseSpawnFails, BaseSendEnds, BasePostEnds, BaseCloseEnds,
   BaseDestroyTimeout, BaseDeleteRefused, BaseDeleteMarks, BaseDeleteStopped, BasePurge,
   BaseUnmark, BaseClear, BaseUpdateCore, BaseUpdateEnds DEF Proceeding

LEMMA BaseWorking == ASSUME BaseInv, NEW c \in Cores, Working(c) PROVE BaseInv'
BY BaseLoop, BaseChat, BaseTurnFails, BaseTurnEnds, BaseSilenced, BaseReport, BaseReportEnds
   DEF Working, Reporting

LEMMA BaseStutter == BaseInv /\ UNCHANGED vars => BaseInv'
<1>. SUFFICES ASSUME BaseInv, UNCHANGED vars PROVE BaseInv'
  OBVIOUS
<1>. USE DEF BaseInv, vars
<1>1. TypeSlot' /\ TypeCore' /\ TypeSessions' /\ TypeArg' /\ TypeCaller'
  BY DEF TypeSlot, TypeCore, TypeSessions, TypeArg, TypeCaller
<1>2. WorksOnOwn' /\ CreatedInOrder'
  BY DEF WorksOnOwn, CreatedInOrder
<1>. QED BY <1>1, <1>2

LEMMA BaseNext == BaseInv /\ [Next]_vars => BaseInv'
<1>. SUFFICES ASSUME BaseInv, [Next]_vars PROVE BaseInv'
  OBVIOUS
<1>1. ASSUME NEW k \in Users, Using(k) PROVE BaseInv'
  BY <1>1, BaseUsing
<1>2. ASSUME NEW k \in Callers, PostRoot(k) \/ Update(k) \/ Proceeding(k) PROVE BaseInv'
  BY <1>2, BasePostRoot, BaseUpdate, BaseProceeding
<1>3. ASSUME NEW c \in Cores, Working(c) PROVE BaseInv'
  BY <1>3, BaseWorking
<1>4. CASE RootTakes
  BY <1>4, BaseRootTakes
<1>5. CASE UNCHANGED vars
  BY <1>5, BaseStutter
<1>. QED BY <1>1, <1>2, <1>3, <1>4, <1>5 DEF Next

(* Every variable keeps its type: the queues stay within their lengths and  *)
(* one task at most holds the mutex (claw_agent_mgr.c:755-773, 1045-1062).  *)
THEOREM TypeCorrect == Spec => []TypeOK
<1>1. BaseInv => TypeOK
  BY TypeParts DEF BaseInv
<1>. QED BY BaseInit, BaseNext, <1>1, PTL DEF Spec

-----------------------------------------------------------------------------
(* Whose core a core is, when every session has one user.                   *)

Apart == \A j, k \in Users : SessionOf[j] = SessionOf[k] => j = k

(* What a caller that closes, deletes or spawns has in its hands.           *)
HandOf(k) ==
  /\ pc[k] \in Removing => /\ core[arg[k].core].id = arg[k].id
                           /\ core[arg[k].core].at # "unborn"
  /\ pc[k] \in Holding =>
       \A s \in Slots : slot[s].id = arg[k].id => slot[s].closing /\ slot[s].core = None
  /\ pc[k] = "spawning" => /\ arg[k].id \in known
                           /\ \A s \in Slots : slot[s].id # arg[k].id
HandInv == \A k \in Callers : HandOf(k)

(* An agent has one slot, which it and its core agree on.                   *)
SlotInv ==
  /\ \A s, t \in Slots : slot[s].id # None /\ slot[s].id = slot[t].id => s = t
  /\ \A s \in Slots : slot[s].core # None =>
       /\ slot[s].id # None /\ ~slot[s].closing
       /\ core[slot[s].core].slot = s /\ core[slot[s].core].id = slot[s].id
       /\ core[slot[s].core].at # "unborn"

(* An id is given once, and its agent is known until its slot is cleared.   *)
Given(id) == id[2] < nextId[id[1]]
Clearing(id) == \E k \in Callers : pc[k] = "clearing" /\ arg[k].id = id
KnownInv ==
  /\ \A id \in known : Given(id)
  /\ \A s \in Slots : slot[s].id # None =>
       Given(slot[s].id) /\ (slot[s].id \in known \/ Clearing(slot[s].id))

(* A core that runs has the slot of its agent; it is in the slot, or the    *)
(* slot waits for its end.                                                  *)
Removed(c) == \E k \in Callers : pc[k] \in Removing /\ arg[k].core = c
HomeOf(c) ==
  LET s == core[c].slot
  IN  /\ slot[s].id = core[c].id /\ core[c].id \in known
      /\ slot[s].core = c \/ (slot[s].closing /\ Removed(c))
      /\ core[c].at \in {"report", "reporting"} => core[c].named = core[c].id
CoreInv == \A c \in Cores : Live(c) => HomeOf(c)

IInv == BaseInv /\ HandInv /\ SlotInv /\ KnownInv /\ CoreInv

(* No two callers work on one agent.                                        *)
LEMMA NobodyElse ==
  ASSUME Apart, WorksOnOwn, NEW k \in Users, NEW id \in OwnIds(k), NEW j \in Callers,
         pc[j] \in Holding \cup {"spawning", "marking"}, arg[j].id = id
  PROVE  j = k
<1>1. j \in Users /\ arg[j].id \in OwnIds(j)
  BY DEF WorksOnOwn, Holding, Removing
<1>2. SessionOf[j] = SessionOf[k]
  BY <1>1 DEF OwnIds
<1>. QED BY <1>1, <1>2 DEF Apart

LEMMA FindsOne ==
  ASSUME SlotInv, NEW id \in Ids, NEW s \in Slots, TypeSlot
  PROVE  Finds(id, s) <=> slot[s].id = id
<1>1. ASSUME slot[s].id = id PROVE \A r \in SlotsOf(id) : s <= r
  <2>1. id # None
    BY ManagerAssumption
  <2>2. s <= s
    BY ManagerAssumption
  <2>. QED BY <1>1, <2>1, <2>2 DEF SlotsOf, SlotInv
<1>. QED BY <1>1 DEF Finds, SlotsOf

(* A slot that can be had is nobody's.                                      *)
Vacant(s) == slot[s].core = None /\ (slot[s].id = None \/ ~slot[s].closing)

LEMMA VacantIsNobodys ==
  ASSUME IInv, NEW s \in Slots, Vacant(s), NEW c \in Cores, Live(c)
  PROVE  core[c].slot # s
<1>1. core[c].id # None /\ c # None
  BY ManagerAssumption DEF IInv, BaseInv, CreatedInOrder, Live
<1>. QED BY <1>1 DEF IInv, CoreInv, HomeOf, Vacant

LEMMA AllocatableIsVacant ==
  ASSUME SlotInv, NEW s \in Slots, Allocatable(s) PROVE Vacant(s)
BY DEF Allocatable, Vacant, SlotInv

(* Nothing of an agent that somebody closes or deletes runs but the core in *)
(* that caller's hands.                                                     *)
LEMMA NoneLeft ==
  ASSUME Apart, IInv, NEW k \in Callers, pc[k] \in Holding, NEW c \in Cores, Live(c),
         core[c].id = arg[k].id
  PROVE  pc[k] \in Removing /\ arg[k].core = c
<1>. DEFINE s == core[c].slot
<1>1. s \in Slots /\ c # None /\ slot[s].id = arg[k].id
  BY ManagerAssumption DEF IInv, BaseInv, CreatedInOrder, CoreInv, HomeOf, Live
<1>2. slot[s].core = None
  BY <1>1 DEF IInv, HandInv, HandOf
<1>3. PICK j \in Callers : pc[j] \in Removing /\ arg[j].core = c
  BY <1>1, <1>2 DEF IInv, CoreInv, HomeOf, Removed
<1>4. arg[j].id = arg[k].id
  BY <1>3 DEF IInv, HandInv, HandOf
<1>5. k \in Users /\ arg[k].id \in OwnIds(k)
  BY DEF IInv, BaseInv, WorksOnOwn, Holding, Removing
<1>6. j = k
  BY <1>3, <1>4, <1>5, NobodyElse DEF IInv, BaseInv, Holding
<1>. QED BY <1>3, <1>6

-----------------------------------------------------------------------------
(* Steps that change nobody's slot.                                         *)

SlotsStay ==
  \A s \in Slots : /\ slot'[s].id = slot[s].id /\ slot'[s].core = slot[s].core
                   /\ slot'[s].closing = slot[s].closing
CoresStay ==
  \A c \in Cores :
    /\ core'[c].id = core[c].id /\ core'[c].slot = core[c].slot
    /\ core'[c].at = "unborn" <=> core[c].at = "unborn"
    /\ core[c].at = "ended" => core'[c].at = "ended"
    /\ core'[c].at \in {"report", "reporting"} =>
         \/ core[c].at \in {"report", "reporting"} /\ core'[c].named = core[c].named
         \/ core'[c].named = slot[core[c].slot].id
HandsStay ==
  \A k \in Callers :
    \/ pc'[k] = pc[k] /\ arg'[k] = arg[k]
    \/ /\ pc[k] \notin Holding
       /\ pc'[k] \notin Holding \cup {"spawning"}
Quiet == /\ SlotsStay /\ CoresStay /\ HandsStay /\ UNCHANGED <<known, nextId>>
         /\ leaked \subseteq leaked'

LEMMA QuietKeeps == ASSUME IInv, BaseInv', Quiet PROVE IInv'
<1>. USE DEF IInv, Quiet
<1>1. \A k \in Callers :
        /\ pc[k] \in Holding => pc'[k] = pc[k] /\ arg'[k] = arg[k]
        /\ pc'[k] \in Holding \cup {"spawning"} => pc'[k] = pc[k] /\ arg'[k] = arg[k]
  BY DEF HandsStay
<1>2. HandInv'
  <2>. SUFFICES ASSUME NEW k \in Callers, pc'[k] \in Holding \cup {"spawning"}
                PROVE  HandOf(k)'
    BY DEF HandInv, HandOf, Holding, Removing
  <2>1. pc'[k] = pc[k] /\ arg'[k] = arg[k]
    BY <1>1
  <2>2. pc[k] \in Removing => arg[k].core \in Cores
    BY DEF BaseInv, WorksOnOwn
  <2>. QED BY <2>1, <2>2 DEF HandInv, HandOf, SlotsStay, CoresStay
<1>3. SlotInv'
  <2>1. \A s \in Slots : slot[s].core \in Cores \cup {None}
    BY DEF BaseInv, TypeSlot, SlotRecords
  <2>. QED BY <2>1 DEF SlotInv, SlotsStay, CoresStay
<1>4. KnownInv'
  <2>1. \A id : Clearing(id) => Clearing(id)'
    BY <1>1 DEF Clearing, Holding
  <2>2. \A id : Given(id)' <=> Given(id)
    BY DEF Given
  <2>. QED BY <2>1, <2>2 DEF KnownInv, SlotsStay
<1>5. CoreInv'
  <2>. SUFFICES ASSUME NEW c \in Cores, Live(c)' PROVE HomeOf(c)'
    BY DEF CoreInv
  <2>1. Live(c)
    BY DEF Live, CoresStay
  <2>2. core[c].slot \in Slots
    BY <2>1 DEF Live, BaseInv, CreatedInOrder
  <2>3. Removed(c) => Removed(c)'
    BY <1>1 DEF Removed, Holding
  <2>. QED BY <2>1, <2>2, <2>3 DEF CoreInv, HomeOf, SlotsStay, CoresStay
<1>. QED BY <1>2, <1>3, <1>4, <1>5

(* The steps that are: each keeps what the invariant is about.             *)
LEMMA SameSlots == slot' = slot => SlotsStay
BY DEF SlotsStay
LEMMA SameCores == core' = core => CoresStay
BY DEF CoresStay
LEMMA SameHands == pc' = pc /\ arg' = arg => HandsStay
BY DEF HandsStay

LEMMA QuietSend ==
  ASSUME BaseInv, NEW k \in Users, NEW id \in OwnIds(k), Send(k, id) PROVE Quiet
<1>. USE DEF BaseInv
<1>1. SlotsStay
  BY DEF SlotsStay, TypeSlot, SlotRecords, Send, Push, Finds, SlotsOf
<1>2. CoresStay
  <2>1. PICK s \in Slots : /\ slot[s].core # None
                          /\ core' = [core EXCEPT ![slot[s].core].work = @ + 1]
    BY DEF Send, Push
  <2>. QED BY <2>1 DEF CoresStay, TypeCore, CoreRecords
<1>3. HandsStay
  BY SameHands DEF Send, Push, Finds, SlotsOf
<1>. QED BY <1>1, <1>2, <1>3 DEF Quiet, sessionVars, Send, Push, Finds, SlotsOf

LEMMA QuietSendWaits ==
  ASSUME BaseInv, NEW k \in Users, NEW id \in OwnIds(k), SendWaits(k, id) PROVE Quiet
<1>. USE DEF BaseInv
<1>1. SlotsStay
  BY SameSlots DEF SendWaits, Finds, SlotsOf
<1>2. CoresStay
  BY SameCores DEF SendWaits, Finds, SlotsOf
<1>3. HandsStay
  BY DEF HandsStay, TypeCaller, TypeArg, Holding, Removing, SendWaits, Finds, SlotsOf
<1>. QED BY <1>1, <1>2, <1>3 DEF Quiet, sessionVars, SendWaits, Finds, SlotsOf

LEMMA QuietCloseStopped ==
  ASSUME BaseInv, NEW k \in Users, NEW id \in OwnIds(k), CloseStopped(k, id) PROVE Quiet
<1>. USE DEF BaseInv
<1>1. SlotsStay
  BY DEF SlotsStay, TypeSlot, SlotRecords, CloseStopped, Finds, SlotsOf
<1>2. CoresStay
  BY SameCores DEF CloseStopped, Finds, SlotsOf
<1>3. HandsStay
  BY SameHands DEF CloseStopped, Finds, SlotsOf
<1>. QED BY <1>1, <1>2, <1>3 DEF Quiet, sessionVars, CloseStopped, Finds, SlotsOf

LEMMA QuietDeleteAgent ==
  ASSUME BaseInv, NEW k \in Users, NEW id \in OwnIds(k), DeleteAgent(k, id) PROVE Quiet
<1>. USE DEF BaseInv
<1>1. SlotsStay
  BY SameSlots DEF DeleteAgent
<1>2. CoresStay
  BY SameCores DEF DeleteAgent
<1>3. HandsStay
  BY DEF HandsStay, TypeCaller, TypeArg, Holding, Removing, DeleteAgent
<1>. QED BY <1>1, <1>2, <1>3 DEF Quiet, sessionVars, DeleteAgent

LEMMA QuietSendEnds ==
  ASSUME BaseInv, NEW k \in Callers, SendEnds(k) PROVE Quiet
<1>. USE DEF BaseInv
<1>1. SlotsStay
  BY DEF SlotsStay, TypeSlot, SlotRecords, SendEnds, Push, Return
<1>2. CoresStay
  <2>1. core' = core \/ core' = [core EXCEPT ![arg[k].core].work = @ + 1]
    BY DEF SendEnds, Push
  <2>. QED BY <2>1 DEF CoresStay, TypeCore, CoreRecords
<1>3. HandsStay
  BY DEF HandsStay, TypeCaller, TypeArg, Holding, Removing, SendEnds, Push, Return
<1>. QED BY <1>1, <1>2, <1>3 DEF Quiet, sessionVars, SendEnds, Push, Return

LEMMA QuietPostRoot ==
  ASSUME BaseInv, NEW k \in Callers, PostRoot(k) PROVE Quiet
<1>. USE DEF BaseInv
<1>1. SlotsStay
  BY SameSlots DEF PostRoot
<1>2. CoresStay
  BY SameCores DEF PostRoot
<1>3. HandsStay
  BY DEF HandsStay, TypeCaller, TypeArg, Holding, Removing, PostRoot
<1>. QED BY <1>1, <1>2, <1>3 DEF Quiet, sessionVars, PostRoot

LEMMA QuietPostEnds ==
  ASSUME BaseInv, NEW k \in Callers, PostEnds(k) PROVE Quiet
<1>. USE DEF BaseInv
<1>1. SlotsStay
  BY SameSlots DEF PostEnds, Return
<1>2. CoresStay
  BY SameCores DEF PostEnds, Return
<1>3. HandsStay
  BY DEF HandsStay, TypeCaller, TypeArg, Holding, Removing, PostEnds, Return
<1>. QED BY <1>1, <1>2, <1>3 DEF Quiet, sessionVars, PostEnds, Return

LEMMA QuietDeleteRefused ==
  ASSUME BaseInv, NEW k \in Callers, DeleteRefused(k) PROVE Quiet
<1>. USE DEF BaseInv
<1>1. SlotsStay
  BY SameSlots DEF DeleteRefused, Return
<1>2. CoresStay
  BY SameCores DEF DeleteRefused, Return
<1>3. HandsStay
  BY DEF HandsStay, TypeCaller, TypeArg, Holding, Removing, DeleteRefused, Return
<1>. QED BY <1>1, <1>2, <1>3 DEF Quiet, sessionVars, DeleteRefused, Return

LEMMA QuietUpdate ==
  ASSUME BaseInv, NEW k \in Callers, Update(k) PROVE Quiet
<1>. USE DEF BaseInv
<1>1. SlotsStay
  BY SameSlots DEF Update, Goto
<1>2. CoresStay
  BY SameCores DEF Update, Goto
<1>3. HandsStay
  BY DEF HandsStay, TypeCaller, TypeArg, Holding, Removing, Update, Goto
<1>. QED BY <1>1, <1>2, <1>3 DEF Quiet, sessionVars, Update, Goto

LEMMA QuietUpdateCore ==
  ASSUME BaseInv, NEW k \in Callers, NEW c \in Cores, UpdateCore(k, c) PROVE Quiet
<1>. USE DEF BaseInv
<1>1. SlotsStay
  BY SameSlots DEF UpdateCore
<1>2. CoresStay
  BY SameCores DEF UpdateCore
<1>3. HandsStay
  BY SameHands DEF UpdateCore
<1>. QED BY <1>1, <1>2, <1>3 DEF Quiet, sessionVars, UpdateCore

LEMMA QuietUpdateEnds ==
  ASSUME BaseInv, NEW k \in Callers, UpdateEnds(k) PROVE Quiet
<1>. USE DEF BaseInv
<1>1. SlotsStay
  BY SameSlots DEF UpdateEnds, Return
<1>2. CoresStay
  BY SameCores DEF UpdateEnds, Return
<1>3. HandsStay
  BY DEF HandsStay, TypeCaller, TypeArg, Holding, Removing, UpdateEnds, Return
<1>. QED BY <1>1, <1>2, <1>3 DEF Quiet, sessionVars, UpdateEnds, Return

LEMMA QuietLoop ==
  ASSUME BaseInv, NEW c \in Cores, Loop(c) PROVE Quiet
<1>. USE DEF BaseInv
<1>1. SlotsStay
  BY SameSlots DEF Loop, Core
<1>2. CoresStay
  BY DEF CoresStay, TypeCore, CoreRecords, Loop, Core
<1>3. HandsStay
  BY SameHands DEF Loop, Core
<1>. QED BY <1>1, <1>2, <1>3 DEF Quiet, sessionVars, Loop, Core

LEMMA QuietChat ==
  ASSUME BaseInv, NEW c \in Cores, Chat(c) PROVE Quiet
<1>. USE DEF BaseInv
<1>1. SlotsStay
  BY SameSlots DEF Chat, Core
<1>2. CoresStay
  BY DEF CoresStay, TypeCore, CoreRecords, Chat, Core
<1>3. HandsStay
  BY SameHands DEF Chat, Core
<1>. QED BY <1>1, <1>2, <1>3 DEF Quiet, sessionVars, Chat, Core

LEMMA QuietTurnFails ==
  ASSUME BaseInv, NEW c \in Cores, TurnFails(c) PROVE Quiet
<1>. USE DEF BaseInv
<1>1. SlotsStay
  BY SameSlots DEF TurnFails, Core
<1>2. CoresStay
  BY DEF CoresStay, TypeCore, CoreRecords, TurnFails, Core
<1>3. HandsStay
  BY SameHands DEF TurnFails, Core
<1>. QED BY <1>1, <1>2, <1>3 DEF Quiet, sessionVars, TurnFails, Core

LEMMA QuietTurnEnds ==
  ASSUME BaseInv, NEW c \in Cores, TurnEnds(c) PROVE Quiet
<1>. USE DEF BaseInv
<1>1. SlotsStay
  BY SameSlots DEF TurnEnds
<1>2. CoresStay
  BY DEF CoresStay, TypeCore, CoreRecords, TurnEnds
<1>3. HandsStay
  BY SameHands DEF TurnEnds
<1>. QED BY <1>1, <1>2, <1>3 DEF Quiet, sessionVars, TurnEnds

LEMMA QuietSilenced ==
  ASSUME BaseInv, NEW c \in Cores, Silenced(c) PROVE Quiet
<1>. USE DEF BaseInv
<1>1. SlotsStay
  BY SameSlots DEF Silenced
<1>2. CoresStay
  BY DEF CoresStay, TypeCore, CoreRecords, Silenced
<1>3. HandsStay
  BY SameHands DEF Silenced
<1>. QED BY <1>1, <1>2, <1>3 DEF Quiet, sessionVars, Silenced

LEMMA QuietReport ==
  ASSUME BaseInv, NEW c \in Cores, Report(c) PROVE Quiet
<1>. USE DEF BaseInv
<1>1. SlotsStay
  BY DEF SlotsStay, TypeSlot, SlotRecords, Report
<1>2. CoresStay
  BY DEF CoresStay, TypeCore, CoreRecords, Report
<1>3. HandsStay
  BY SameHands DEF Report
<1>. QED BY <1>1, <1>2, <1>3 DEF Quiet, sessionVars, Report

LEMMA QuietReportEnds ==
  ASSUME BaseInv, NEW c \in Cores, ReportEnds(c) PROVE Quiet
<1>. USE DEF BaseInv
<1>1. SlotsStay
  BY SameSlots DEF ReportEnds
<1>2. CoresStay
  BY DEF CoresStay, TypeCore, CoreRecords, ReportEnds
<1>3. HandsStay
  BY SameHands DEF ReportEnds
<1>. QED BY <1>1, <1>2, <1>3 DEF Quiet, sessionVars, ReportEnds

LEMMA QuietRootTakes ==
  ASSUME BaseInv, RootTakes PROVE Quiet
<1>. USE DEF BaseInv
<1>1. SlotsStay
  BY SameSlots DEF RootTakes
<1>2. CoresStay
  BY SameCores DEF RootTakes
<1>3. HandsStay
  BY SameHands DEF RootTakes
<1>. QED BY <1>1, <1>2, <1>3 DEF Quiet, sessionVars, RootTakes

-----------------------------------------------------------------------------
(* Steps that take a vacant slot.                                           *)

(* What becomes of slot s: vacant, or the agent id's, with or without the   *)
(* core that is created with it.                                            *)
Occupies(k, id, s) ==
  /\ slot' = [slot EXCEPT ![s] = slot'[s]]
  /\ slot'[s].id = None \/ slot'[s].id = id
  /\ ~slot'[s].closing
  /\ \/ slot'[s].core = None /\ UNCHANGED <<core, created>>
     \/ /\ created < MaxCores /\ created' = created + 1
        /\ slot'[s].core = created' /\ slot'[s].id = id
        /\ core' = [core EXCEPT ![created'] = Started(id, s, 1)]
  /\ \A j \in Callers : j # k => pc'[j] = pc[j] /\ arg'[j] = arg[j]
  /\ pc'[k] = "idle" /\ UNCHANGED <<known, nextId, leaked>>

LEMMA OccupyKeeps ==
  ASSUME Apart, IInv, BaseInv', NEW k \in Users, NEW id \in OwnIds(k), NEW s \in Slots,
         pc[k] \in {"idle", "spawning"}, pc[k] = "spawning" => arg[k].id = id,
         Vacant(s), id \in known, \A t \in Slots : t # s => slot[t].id # id,
         Occupies(k, id, s)
  PROVE  IInv'
<1>0. k \in Callers /\ id \in Ids /\ id # None
  BY ManagerAssumption, OwnIsId
<1>1. \A t \in Slots : t # s => slot'[t] = slot[t]
  BY DEF Occupies, IInv, BaseInv, TypeSlot
<1>2. \A c \in Cores : core[c].at # "unborn" => core'[c] = core[c]
  <2>. SUFFICES ASSUME NEW c \in Cores, core[c].at # "unborn" PROVE core'[c] = core[c]
    OBVIOUS
  <2>1. core' # core => c # created'
    BY NewCore DEF Occupies, IInv, BaseInv, CreatedInOrder
  <2>. QED BY <2>1 DEF Occupies, IInv, BaseInv, TypeCore
<1>3. \/ slot'[s].core = None /\ core' = core
      \/ /\ created < MaxCores /\ slot'[s].core = created + 1 /\ slot'[s].id = id
         /\ created + 1 \in Cores /\ core[created + 1].at = "unborn"
         /\ core'[created + 1].slot = s /\ core'[created + 1].id = id
         /\ core'[created + 1].at = "idle"
         /\ \A c \in Cores : c # created + 1 => core'[c] = core[c]
  <2>1. CASE slot'[s].core = None /\ UNCHANGED <<core, created>>
    BY <2>1
  <2>2. CASE /\ created < MaxCores /\ created' = created + 1
             /\ slot'[s].core = created' /\ slot'[s].id = id
             /\ core' = [core EXCEPT ![created'] = Started(id, s, 1)]
    <3>1. created + 1 \in Cores /\ 1 \in 0..QueueLen
      BY <2>2, NewCore, ManagerAssumption DEF IInv, BaseInv
    <3>2. core[created + 1].at = "unborn"
      BY <3>1, NewCore, <2>2 DEF IInv, BaseInv, CreatedInOrder
    <3>3. /\ core'[created + 1] = Started(id, s, 1)
          /\ \A c \in Cores : c # created + 1 => core'[c] = core[c]
      BY <2>2, <3>1 DEF IInv, BaseInv, TypeCore
    <3>. QED BY <1>0, <2>2, <3>1, <3>2, <3>3, StartedTyped
  <2>. QED BY <2>1, <2>2 DEF Occupies
<1>4. \A j \in Callers : pc'[j] # "idle" => j # k /\ pc'[j] = pc[j] /\ arg'[j] = arg[j]
  BY DEF Occupies
<1>5. \A j \in Callers : j # k /\ pc[j] \in Holding \cup {"spawning"} => arg[j].id # id
  BY NobodyElse DEF IInv, BaseInv
<1>6. HandInv'
  <2>. SUFFICES ASSUME NEW j \in Callers, pc'[j] \in Holding \cup {"spawning"}
                PROVE  HandOf(j)'
    BY DEF HandInv, HandOf, Holding, Removing
  <2>1. j # k /\ pc'[j] = pc[j] /\ arg'[j] = arg[j] /\ arg[j].id # id
    BY <1>4, <1>5 DEF Holding, Removing
  <2>2. HandOf(j) /\ (pc[j] \in Removing => arg[j].core \in Cores) /\ arg[j].id # None
    BY <2>1, ManagerAssumption, OwnIsId
    DEF IInv, HandInv, BaseInv, WorksOnOwn, Holding, Removing
  <2>3. slot'[s].id # arg[j].id
    BY <2>1, <2>2 DEF Occupies
  <2>4. known' = known
    BY DEF Occupies
  <2>. QED BY <1>1, <1>2, <2>1, <2>2, <2>3, <2>4 DEF HandOf
<1>7. SlotInv'
  <2>1. ASSUME NEW t \in Slots, NEW u \in Slots, slot'[t].id # None, slot'[t].id = slot'[u].id
        PROVE  t = u
    <3>1. CASE t # s /\ u # s
      BY <1>1, <2>1, <3>1 DEF IInv, SlotInv
    <3>2. CASE t = s \/ u = s
      BY <1>1, <2>1, <3>2 DEF Occupies
    <3>. QED BY <3>1, <3>2
  <2>2. ASSUME NEW t \in Slots, slot'[t].core # None
        PROVE  /\ slot'[t].id # None /\ ~slot'[t].closing
               /\ core'[slot'[t].core].slot = t /\ core'[slot'[t].core].id = slot'[t].id
               /\ core'[slot'[t].core].at # "unborn"
    <3>1. CASE t = s
      BY <1>0, <1>3, <2>2, <3>1 DEF Occupies
    <3>2. CASE t # s
      <4>1. slot'[t] = slot[t] /\ slot[t].core \in Cores
        BY <1>1, <2>2, <3>2 DEF IInv, BaseInv, TypeSlot, SlotRecords
      <4>. QED BY <1>2, <2>2, <4>1 DEF IInv, SlotInv
    <3>. QED BY <3>1, <3>2
  <2>. QED BY <2>1, <2>2 DEF SlotInv
<1>8. KnownInv'
  <2>1. \A x : (Given(x)' <=> Given(x)) /\ (Clearing(x) => Clearing(x)')
    BY DEF Given, Clearing, Occupies
  <2>2. \A t \in Slots : slot'[t].id # None => slot'[t].id = id \/ slot'[t].id = slot[t].id
    BY <1>1 DEF Occupies
  <2>3. known' = known
    BY DEF Occupies
  <2>. QED BY <2>1, <2>2, <2>3 DEF IInv, KnownInv
<1>9. CoreInv'
  <2>. SUFFICES ASSUME NEW c \in Cores, Live(c)' PROVE HomeOf(c)'
    BY DEF CoreInv
  <2>1. CASE core[c].at = "unborn"
    <3>1. c = created + 1 /\ slot'[s].core = c /\ slot'[s].id = id
          /\ core'[c].slot = s /\ core'[c].id = id /\ core'[c].at = "idle"
      BY <1>3, <2>1 DEF Live
    <3>2. id \in known'
      BY DEF Occupies
    <3>. QED BY <3>1, <3>2 DEF HomeOf
  <2>2. CASE core[c].at # "unborn"
    <3>1. core'[c] = core[c] /\ Live(c) /\ core[c].slot \in Slots
      BY <1>2, <2>2 DEF Live, Occupies, IInv, BaseInv, CreatedInOrder
    <3>2. slot'[core[c].slot] = slot[core[c].slot]
      BY <1>1, <3>1, VacantIsNobodys
    <3>3. Removed(c) => Removed(c)'
      BY DEF Removed, Occupies, Removing
    <3>4. known' = known
      BY DEF Occupies
    <3>. QED BY <3>1, <3>2, <3>3, <3>4 DEF IInv, CoreInv, HomeOf
  <2>. QED BY <2>1, <2>2
<1>. QED BY <1>6, <1>7, <1>8, <1>9 DEF IInv

(* An idle caller's agent that has a slot is known.                         *)
LEMMA FoundIsKnown ==
  ASSUME Apart, IInv, NEW k \in Users, NEW id \in OwnIds(k), pc[k] = "idle",
         NEW s \in Slots, slot[s].id = id
  PROVE  id \in known
<1>1. id # None
  BY ManagerAssumption, OwnIsId
<1>2. id \in known \/ Clearing(id)
  BY <1>1 DEF IInv, KnownInv
<1>3. ~Clearing(id)
  BY NobodyElse DEF Clearing, IInv, BaseInv, Holding
<1>. QED BY <1>2, <1>3

(* What finding or taking a slot for an idle caller's agent gives.          *)
LEMMA TakesVacant ==
  ASSUME Apart, IInv, NEW k \in Users, NEW id \in OwnIds(k), pc[k] = "idle",
         NEW s, FindsOrTakes(id, s), Taken(id, s).core = None, ~Taken(id, s).closing
  PROVE  /\ s \in Slots /\ Vacant(s) /\ id \in known
         /\ \A t \in Slots : t # s => slot[t].id # id
<1>0. id \in Ids /\ id # None
  BY ManagerAssumption, OwnIsId
<1>1. CASE Finds(id, s)
  <2>1. s \in Slots /\ slot[s].id = id
    BY <1>1 DEF Finds, SlotsOf
  <2>2. Vacant(s)
    BY <2>1 DEF Taken, Vacant
  <2>. QED BY <1>0, <2>1, <2>2, FoundIsKnown DEF IInv, SlotInv
<1>2. CASE SlotsOf(id) = {} /\ id \in known /\ ~Full /\ s = FirstSlot
  <2>1. s \in Slots /\ Vacant(s)
    BY <1>2, FirstSlotIsFree, AllocatableIsVacant DEF IInv
  <2>. QED BY <1>2, <2>1 DEF SlotsOf
<1>. QED BY <1>1, <1>2 DEF FindsOrTakes

LEMMA InspectKeeps ==
  ASSUME Apart, IInv, NEW k \in Users, NEW id \in OwnIds(k), Inspect(k, id) PROVE IInv'
<1>0. k \in Callers /\ id \in Ids
  BY ManagerAssumption, OwnIsId
<1>1. BaseInv'
  BY BaseInspect DEF IInv
<1>2. PICK s \in Slots : FindsOrTakes(id, s) /\ slot' = [slot EXCEPT ![s] = Taken(id, s)]
  BY DEF Inspect
<1>3. slot'[s] = Taken(id, s) /\ slot' = [slot EXCEPT ![s] = slot'[s]]
  BY <1>2 DEF IInv, BaseInv, TypeSlot
<1>4. CASE slot[s].id = id
  <2>1. slot' = slot
    BY <1>2, <1>4 DEF Taken, IInv, BaseInv, TypeSlot
  <2>2. Quiet
    BY <2>1, SameSlots, SameCores, SameHands DEF Quiet, Inspect, sessionVars
  <2>. QED BY <1>1, <2>2, QuietKeeps
<1>5. CASE slot[s].id # id
  <2>1. /\ slot'[s].core = None /\ ~slot'[s].closing
        /\ Taken(id, s).core = None /\ ~Taken(id, s).closing
    BY <1>3, <1>5 DEF Taken, Free
  <2>2. slot'[s].id = id
    BY <1>0, <1>3, TakenTyped DEF IInv, BaseInv
  <2>3. pc[k] = "idle"
    BY DEF Inspect
  <2>4. Occupies(k, id, s)
    BY <1>3, <2>1, <2>2, <2>3 DEF Occupies, Inspect, sessionVars
  <2>. QED BY <1>1, <1>2, <2>1, <2>3, <2>4, TakesVacant, OccupyKeeps
<1>. QED BY <1>4, <1>5

LEMMA SendStartsKeeps ==
  ASSUME Apart, IInv, NEW k \in Users, NEW id \in OwnIds(k), SendStarts(k, id) PROVE IInv'
<1>0. k \in Callers /\ id \in Ids
  BY ManagerAssumption, OwnIsId
<1>1. BaseInv'
  BY BaseSendStarts DEF IInv
<1>2. PICK s \in Slots :
        /\ FindsOrTakes(id, s) /\ Taken(id, s).core = None /\ ~Taken(id, s).closing
        /\ slot' = [slot EXCEPT ![s] = [Taken(id, s) EXCEPT !.core = created + 1,
                                                          !.status = "running"]]
        /\ core' = [core EXCEPT ![created + 1] = Started(id, s, 1)]
  BY DEF SendStarts
<1>3. Taken(id, s) \in SlotRecords /\ Taken(id, s).id = id
  BY <1>0, TakenTyped DEF IInv, BaseInv
<1>4. /\ slot'[s].id = id /\ slot'[s].core = created + 1 /\ ~slot'[s].closing
      /\ slot' = [slot EXCEPT ![s] = slot'[s]]
  BY <1>2, <1>3 DEF SlotRecords, IInv, BaseInv, TypeSlot
<1>5. pc[k] = "idle"
  BY DEF SendStarts
<1>6. Occupies(k, id, s)
  BY <1>2, <1>4, <1>5 DEF Occupies, SendStarts, sessionVars
<1>. QED BY <1>1, <1>2, <1>5, <1>6, TakesVacant, OccupyKeeps

(* A spawning caller has its id to itself.                                  *)
LEMMA SpawningIsKnown ==
  ASSUME IInv, NEW k \in Callers, pc[k] = "spawning"
  PROVE  /\ k \in Users /\ arg[k].id \in OwnIds(k) /\ arg[k].id \in known
         /\ \A t \in Slots : slot[t].id # arg[k].id
BY DEF IInv, BaseInv, WorksOnOwn, HandInv, HandOf

LEMMA SpawnStartsKeeps ==
  ASSUME Apart, IInv, NEW k \in Callers, SpawnStarts(k) PROVE IInv'
<1>. DEFINE s == FirstSlot
<1>1. BaseInv'
  BY BaseSpawnStarts DEF IInv
<1>2. s \in Slots /\ Vacant(s)
  BY FirstSlotIsFree, AllocatableIsVacant DEF SpawnStarts, IInv
<1>3. pc[k] = "spawning"
  BY DEF SpawnStarts
<1>4. slot' = [slot EXCEPT ![s] = [id |-> arg[k].id, status |-> "running",
                                   closing |-> FALSE, core |-> created + 1]]
  BY DEF SpawnStarts
<1>5. core' = [core EXCEPT ![created + 1] = Started(arg[k].id, s, 1)] /\ created' = created + 1
  BY DEF SpawnStarts
<1>6. pc'[k] = "idle" /\ \A j \in Callers : j # k => pc'[j] = pc[j] /\ arg'[j] = arg[j]
  BY DEF SpawnStarts, Return, IInv, BaseInv, TypeCaller, TypeArg
<1>. HIDE DEF s
<1>7. /\ slot'[s].id = arg[k].id /\ slot'[s].core = created + 1 /\ ~slot'[s].closing
      /\ slot' = [slot EXCEPT ![s] = slot'[s]]
  BY <1>2, <1>4 DEF IInv, BaseInv, TypeSlot
<1>8. Occupies(k, arg[k].id, s)
  BY <1>5, <1>6, <1>7 DEF Occupies, SpawnStarts, sessionVars
<1>. QED BY <1>1, <1>2, <1>3, <1>8, SpawningIsKnown, OccupyKeeps

LEMMA SpawnFailsKeeps ==
  ASSUME Apart, IInv, NEW k \in Callers, SpawnFails(k) PROVE IInv'
<1>1. BaseInv'
  BY BaseSpawnFails DEF IInv
<1>2. pc[k] = "spawning"
  BY DEF SpawnFails
<1>3. pc'[k] = "idle" /\ \A j \in Callers : j # k => pc'[j] = pc[j] /\ arg'[j] = arg[j]
  BY DEF SpawnFails, Return, IInv, BaseInv, TypeCaller, TypeArg
<1>4. CASE Full
  <2>1. SlotsStay /\ CoresStay
    BY <1>4, SameSlots, SameCores DEF SpawnFails
  <2>2. HandsStay
    BY <1>2, <1>3 DEF HandsStay, Holding, Removing
  <2>. QED BY <1>1, <2>1, <2>2, QuietKeeps DEF Quiet, SpawnFails, sessionVars
<1>5. CASE ~Full
  <2>. DEFINE s == FirstSlot
  <2>1. s \in Slots /\ Vacant(s)
    BY <1>5, FirstSlotIsFree, AllocatableIsVacant DEF IInv
  <2>2. slot' = [slot EXCEPT ![s] = Free]
    BY <1>5 DEF SpawnFails
  <2>. HIDE DEF s
  <2>3. /\ slot'[s].id = None /\ slot'[s].core = None /\ ~slot'[s].closing
        /\ slot' = [slot EXCEPT ![s] = slot'[s]]
    BY <2>1, <2>2 DEF Free, IInv, BaseInv, TypeSlot
  <2>4. Occupies(k, arg[k].id, s)
    BY <1>3, <2>3 DEF Occupies, SpawnFails, sessionVars
  <2>. QED BY <1>1, <1>2, <2>1, <2>4, SpawningIsKnown, OccupyKeeps
<1>. QED BY <1>4, <1>5

LEMMA SpawnKeeps ==
  ASSUME Apart, IInv, NEW k \in Users, Spawn(k) PROVE IInv'
<1>. DEFINE p == SessionOf[k]
<1>a. PICK id \in Ids : id = <<p, nextId[p]>>
  BY NewId DEF IInv, BaseInv
<1>0. k \in Callers /\ id \in OwnIds(k) /\ id \in Ids /\ p \in Sessions /\ nextId[p] \in Nat
      /\ id # None
  BY <1>a, ManagerAssumption, NewId DEF IInv, BaseInv
<1>1. BaseInv'
  BY BaseSpawn DEF IInv
<1>2. /\ slot' = slot /\ core' = core /\ leaked' = leaked /\ known' = known \cup {id}
      /\ nextId' = [nextId EXCEPT ![p] = nextId[p] + 1] /\ pc[k] = "idle"
  BY <1>a DEF Spawn
<1>3. /\ pc'[k] = "spawning" /\ arg'[k].id = id
      /\ \A j \in Callers : j # k => pc'[j] = pc[j] /\ arg'[j] = arg[j]
  BY <1>0, <1>a DEF Spawn, IInv, BaseInv, TypeCaller, TypeArg, Args
<1>4. ~Given(id)
  BY <1>0, <1>a DEF Given
<1>5. \A x \in Ids : Given(x) => Given(x)'
  <2>. SUFFICES ASSUME NEW x \in Ids, Given(x) PROVE Given(x)'
    OBVIOUS
  <2>1. x[1] \in Sessions /\ x[2] \in Nat /\ nextId[x[1]] \in Nat
    BY DEF Ids, IInv, BaseInv, TypeSessions
  <2>2. nextId'[x[1]] = nextId[x[1]] \/ nextId'[x[1]] = nextId[x[1]] + 1
    BY <1>2, <2>1 DEF IInv, BaseInv, TypeSessions
  <2>. QED BY <2>1, <2>2 DEF Given
<1>6. Given(id)'
  <2>1. nextId'[p] = nextId[p] + 1
    BY <1>0, <1>2 DEF IInv, BaseInv, TypeSessions
  <2>. QED BY <1>0, <1>a, <2>1 DEF Given
<1>. HIDE DEF p
<1>7. \A s \in Slots : slot[s].id # id
  BY <1>0, <1>4 DEF IInv, KnownInv
<1>8. HandInv'
  <2>. SUFFICES ASSUME NEW j \in Callers PROVE HandOf(j)'
    BY DEF HandInv
  <2>1. CASE j = k
    BY <1>2, <1>3, <1>7, <2>1 DEF HandOf, Holding, Removing
  <2>2. CASE j # k
    BY <1>2, <1>3, <2>2 DEF HandOf, IInv, HandInv
  <2>. QED BY <2>1, <2>2
<1>9. SlotInv'
  BY <1>2 DEF SlotInv, IInv
<1>10. KnownInv'
  <2>1. \A x : Clearing(x) => Clearing(x)'
    BY <1>2, <1>3 DEF Clearing
  <2>2. known \subseteq Ids /\ \A s \in Slots : slot[s].id \in Ids \cup {None}
    BY DEF IInv, BaseInv, TypeSessions, TypeSlot, SlotRecords
  <2>. QED BY <1>2, <1>5, <1>6, <2>1, <2>2 DEF KnownInv, IInv
<1>11. CoreInv'
  <2>. SUFFICES ASSUME NEW c \in Cores, Live(c)' PROVE HomeOf(c)'
    BY DEF CoreInv
  <2>1. Live(c) /\ (Removed(c) => Removed(c)')
    BY <1>2, <1>3 DEF Live, Removed, Removing
  <2>. QED BY <1>2, <2>1 DEF HomeOf, IInv, CoreInv
<1>. QED BY <1>1, <1>8, <1>9, <1>10, <1>11 DEF IInv

-----------------------------------------------------------------------------
(* Steps of closing and deleting.                                           *)

LEMMA RemoveKeeps ==
  ASSUME IInv, BaseInv', NEW k \in Users, NEW s \in Slots, NEW p \in Removing,
         pc[k] \in {"idle", "marking"}, slot[s].core # None, Remove(k, s, p),
         UNCHANGED <<known, nextId, leaked>>
  PROVE  IInv'
<1>. DEFINE d == slot[s].core
<1>1. /\ k \in Callers /\ d \in Cores /\ arg'[k].id = slot[s].id /\ arg'[k].core = d
      /\ pc'[k] = p
      /\ \A j \in Callers : j # k => pc'[j] = pc[j] /\ arg'[j] = arg[j]
      /\ \A c \in Cores : /\ core'[c].at = core[c].at /\ core'[c].id = core[c].id
                          /\ core'[c].slot = core[c].slot /\ core'[c].named = core[c].named
  <2>1. k \in Callers
    BY ManagerAssumption
  <2>2. pc'[k] = p /\ \A j \in Callers : j # k => pc'[j] = pc[j]
    BY <2>1 DEF Remove, IInv, BaseInv, TypeCaller
  <2>. QED BY <2>1, <2>2, RemoveTyped DEF IInv, BaseInv
<1>2. /\ slot'[s].id = slot[s].id /\ slot'[s].core = None /\ slot'[s].closing
      /\ \A t \in Slots : t # s => slot'[t] = slot[t]
  BY DEF Remove, IInv, BaseInv, TypeSlot, SlotRecords
<1>3. /\ slot[s].id # None /\ ~slot[s].closing /\ d # None
      /\ core[d].slot = s /\ core[d].id = slot[s].id /\ core[d].at # "unborn"
  BY DEF IInv, SlotInv
<1>. HIDE DEF d
<1>4. HandInv'
  <2>. SUFFICES ASSUME NEW j \in Callers PROVE HandOf(j)'
    BY DEF HandInv
  <2>1. CASE j = k
    <3>1. \A t \in Slots : slot'[t].id = arg'[k].id => t = s
      BY <1>1, <1>2, <1>3 DEF IInv, SlotInv
    <3>. QED BY <1>1, <1>2, <1>3, <2>1, <3>1 DEF HandOf, Removing
  <2>2. CASE j # k
    <3>1. HandOf(j) /\ (pc[j] \in Removing => arg[j].core \in Cores)
      BY DEF IInv, HandInv, BaseInv, WorksOnOwn
    <3>. QED BY <1>1, <1>2, <2>2, <3>1 DEF HandOf
  <2>. QED BY <2>1, <2>2
<1>5. SlotInv'
  <2>1. \A t \in Slots : slot'[t].id = slot[t].id
    BY <1>2
  <2>2. \A t \in Slots : slot'[t].core # None => t # s /\ slot'[t] = slot[t] /\ slot[t].core \in Cores
    BY <1>2 DEF IInv, BaseInv, TypeSlot, SlotRecords
  <2>. QED BY <1>1, <2>1, <2>2 DEF IInv, SlotInv
<1>6. KnownInv'
  <2>1. \A t \in Slots : slot'[t].id = slot[t].id
    BY <1>2
  <2>2. \A x : (Clearing(x) => Clearing(x)') /\ (Given(x)' <=> Given(x))
    BY <1>1 DEF Clearing, Given
  <2>. QED BY <2>1, <2>2 DEF IInv, KnownInv
<1>7. CoreInv'
  <2>. SUFFICES ASSUME NEW c \in Cores, Live(c)' PROVE HomeOf(c)'
    BY DEF CoreInv
  <2>1. Live(c) /\ HomeOf(c) /\ core[c].slot \in Slots
    BY <1>1 DEF Live, IInv, CoreInv, BaseInv, CreatedInOrder
  <2>2. CASE c = d
    <3>1. Removed(c)'
      BY <1>1, <2>2 DEF Removed
    <3>. QED BY <1>1, <1>2, <1>3, <2>1, <2>2, <3>1 DEF HomeOf
  <2>3. CASE c # d
    <3>1. core[c].slot # s
      BY <1>3, <2>1, <2>3 DEF HomeOf, d
    <3>2. Removed(c) => Removed(c)'
      BY <1>1 DEF Removed, Removing
    <3>. QED BY <1>1, <1>2, <2>1, <3>1, <3>2 DEF HomeOf
  <2>. QED BY <2>2, <2>3
<1>. QED BY <1>4, <1>5, <1>6, <1>7 DEF IInv

LEMMA CloseAgentKeeps ==
  ASSUME Apart, IInv, NEW k \in Users, NEW id \in OwnIds(k), CloseAgent(k, id) PROVE IInv'
<1>1. BaseInv'
  BY BaseCloseAgent DEF IInv
<1>2. PICK s \in Slots : slot[s].core # None /\ Remove(k, s, "closing")
  BY DEF CloseAgent
<1>. QED BY <1>1, <1>2, RemoveKeeps DEF CloseAgent, Removing, sessionVars

(* The slots of an agent that is being closed or deleted are marked anew or *)
(* cleared, when its core has ended or was given up.                        *)
Unmarks(k) ==
  /\ \A s \in Slots : s \notin Mine(k) => slot'[s] = slot[s]
  /\ \A s \in Mine(k) : /\ slot'[s].core = None
                        /\ slot'[s].id = slot[s].id \/ slot'[s].id = None
  /\ pc[k] = "clearing" => \A s \in Mine(k) : slot'[s].id = None
  /\ \/ pc'[k] = "idle"
     \/ /\ pc'[k] = "purging" /\ arg'[k] = arg[k]
        /\ \A s \in Mine(k) : slot'[s].closing
  /\ \A j \in Callers : j # k => pc'[j] = pc[j] /\ arg'[j] = arg[j]
  /\ pc[k] \in Removing => core[arg[k].core].at = "ended" \/ arg[k].core \in leaked'
  /\ leaked \subseteq leaked' /\ UNCHANGED <<core, known, nextId>>

LEMMA MineAre ==
  ASSUME IInv, NEW k \in Callers, pc[k] \in Holding
  PROVE  /\ Mine(k) = {s \in Slots : slot[s].id = arg[k].id}
         /\ k \in Users /\ arg[k].id \in OwnIds(k) /\ arg[k].id \in Ids /\ arg[k].id # None
<1>1. k \in Users /\ arg[k].id \in OwnIds(k) /\ arg[k].id \in Ids
  BY OwnIsId DEF IInv, BaseInv, WorksOnOwn, Holding, Removing
<1>2. \A s \in Slots : Finds(arg[k].id, s) <=> slot[s].id = arg[k].id
  BY <1>1, FindsOne DEF IInv, BaseInv
<1>3. \A s \in Slots : slot[s].id = arg[k].id => slot[s].closing /\ slot[s].core = None
  BY DEF IInv, HandInv, HandOf
<1>. QED BY <1>1, <1>2, <1>3, ManagerAssumption DEF Mine

LEMMA UnmarkKeeps ==
  ASSUME Apart, IInv, BaseInv', NEW k \in Callers, pc[k] \in Holding, Unmarks(k) PROVE IInv'
<1>1. /\ Mine(k) = {s \in Slots : slot[s].id = arg[k].id}
      /\ k \in Users /\ arg[k].id \in OwnIds(k) /\ arg[k].id # None
  BY MineAre
<1>2. \A j \in Callers : j # k /\ pc[j] \in Holding \cup {"spawning"} => arg[j].id # arg[k].id
  BY <1>1, NobodyElse DEF IInv, BaseInv
<1>3. \A s \in Slots : \/ slot'[s] = slot[s] /\ s \notin Mine(k)
                       \/ /\ s \in Mine(k) /\ slot[s].id = arg[k].id /\ slot'[s].core = None
                          /\ slot'[s].id \in {slot[s].id, None}
  BY <1>1 DEF Unmarks
<1>4. HandInv'
  <2>. SUFFICES ASSUME NEW j \in Callers, pc'[j] \in Holding \cup {"spawning"} PROVE HandOf(j)'
    BY DEF HandInv, HandOf, Holding, Removing
  <2>1. CASE j = k
    <3>1. pc'[k] = "purging" /\ arg'[k] = arg[k] /\ \A s \in Mine(k) : slot'[s].closing
      BY <2>1 DEF Unmarks, Holding, Removing
    <3>2. \A s \in Slots : slot'[s].id = arg[k].id => s \in Mine(k)
      BY <1>1, <1>3
    <3>. QED BY <1>3, <2>1, <3>1, <3>2 DEF HandOf, Removing
  <2>2. CASE j # k
    <3>1. pc'[j] = pc[j] /\ arg'[j] = arg[j] /\ core' = core /\ known' = known
      BY <2>2 DEF Unmarks
    <3>2. HandOf(j) /\ arg[j].id # arg[k].id /\ arg[j].id # None
      BY <1>2, <2>2, <3>1, OwnIsId, ManagerAssumption
      DEF IInv, HandInv, BaseInv, WorksOnOwn, Holding, Removing
    <3>3. \A s \in Slots : slot'[s].id = arg[j].id => slot'[s] = slot[s]
      BY <1>3, <3>2
    <3>. QED BY <3>1, <3>2, <3>3 DEF HandOf
  <2>. QED BY <2>1, <2>2
<1>5. SlotInv'
  <2>1. core' = core
    BY DEF Unmarks
  <2>. QED BY <1>3, <2>1 DEF IInv, SlotInv
<1>6. KnownInv'
  <2>1. known' = known /\ \A x : Given(x)' <=> Given(x)
    BY DEF Unmarks, Given
  <2>2. \A x : Clearing(x) => Clearing(x)' \/ (pc[k] = "clearing" /\ x = arg[k].id)
    BY DEF Clearing, Unmarks
  <2>3. ASSUME NEW s \in Slots, slot'[s].id # None
        PROVE  slot'[s].id = slot[s].id /\ ~(pc[k] = "clearing" /\ slot[s].id = arg[k].id)
    BY <1>1, <1>3, <2>3 DEF Unmarks
  <2>. QED BY <2>1, <2>2, <2>3 DEF IInv, KnownInv
<1>7. CoreInv'
  <2>. SUFFICES ASSUME NEW c \in Cores, Live(c)' PROVE HomeOf(c)'
    BY DEF CoreInv
  <2>1. Live(c) /\ core' = core /\ known' = known
    BY DEF Live, Unmarks
  <2>2. core[c].slot \in Slots /\ HomeOf(c)
    BY <2>1 DEF Live, IInv, BaseInv, CreatedInOrder, CoreInv
  <2>3. core[c].id # arg[k].id
    BY <2>1, NoneLeft DEF Unmarks, Live
  <2>4. slot'[core[c].slot] = slot[core[c].slot]
    BY <1>3, <2>2, <2>3 DEF HomeOf
  <2>5. Removed(c) => Removed(c)'
    <3>1. ASSUME pc[k] \in Removing PROVE arg[k].core # c
      BY <2>1, <3>1 DEF Unmarks, Live
    <3>. QED BY <3>1 DEF Removed, Unmarks
  <2>. QED BY <2>1, <2>2, <2>4, <2>5 DEF HomeOf
<1>. QED BY <1>4, <1>5, <1>6, <1>7 DEF IInv

LEMMA MarkIs ==
  ASSUME TypeSlot, NEW k, NEW x, NEW b, Mark(k, x, b)
  PROVE  /\ \A s \in Slots : s \notin Mine(k) => slot'[s] = slot[s]
         /\ \A s \in Mine(k) : slot'[s].core = None /\ slot'[s].id = slot[s].id
BY DEF Mark, Mine, TypeSlot, SlotRecords

LEMMA CloseEndsKeeps == ASSUME Apart, IInv, NEW k \in Callers, CloseEnds(k) PROVE IInv'
<1>1. BaseInv'
  BY BaseCloseEnds DEF IInv
<1>2. pc'[k] = "idle" /\ \A j \in Callers : j # k => pc'[j] = pc[j] /\ arg'[j] = arg[j]
  BY DEF CloseEnds, Return, IInv, BaseInv, TypeCaller, TypeArg
<1>3. Unmarks(k)
  BY <1>2, MarkIs DEF Unmarks, CloseEnds, Destroyed, sessionVars, IInv, BaseInv
<1>. QED BY <1>1, <1>3, UnmarkKeeps DEF CloseEnds, Holding, Removing

LEMMA DestroyTimeoutKeeps ==
  ASSUME Apart, IInv, NEW k \in Callers, DestroyTimeout(k) PROVE IInv'
<1>1. BaseInv'
  BY BaseDestroyTimeout DEF IInv
<1>2. pc'[k] = "idle" /\ \A j \in Callers : j # k => pc'[j] = pc[j] /\ arg'[j] = arg[j]
  BY DEF DestroyTimeout, Return, IInv, BaseInv, TypeCaller, TypeArg
<1>3. Unmarks(k)
  BY <1>2, MarkIs DEF Unmarks, DestroyTimeout, sessionVars, IInv, BaseInv
<1>. QED BY <1>1, <1>3, UnmarkKeeps DEF DestroyTimeout, Holding, Removing

LEMMA DeleteStoppedKeeps ==
  ASSUME Apart, IInv, NEW k \in Callers, DeleteStopped(k) PROVE IInv'
<1>1. BaseInv'
  BY BaseDeleteStopped DEF IInv
<1>2. /\ pc'[k] = "purging" /\ arg' = arg
      /\ \A j \in Callers : j # k => pc'[j] = pc[j] /\ arg'[j] = arg[j]
  BY DEF DeleteStopped, Goto, IInv, BaseInv, TypeCaller
<1>3. Unmarks(k)
  <2>1. \A s \in Mine(k) : slot'[s].closing
    BY DEF DeleteStopped, Mark, Mine, IInv, BaseInv, TypeSlot, SlotRecords
  <2>. QED BY <1>2, <2>1, MarkIs DEF Unmarks, DeleteStopped, Destroyed, sessionVars, IInv, BaseInv
<1>. QED BY <1>1, <1>3, UnmarkKeeps DEF DeleteStopped, Holding, Removing

LEMMA UnmarkStepKeeps == ASSUME Apart, IInv, NEW k \in Callers, Unmark(k) PROVE IInv'
<1>1. BaseInv'
  BY BaseUnmark DEF IInv
<1>2. pc'[k] = "idle" /\ \A j \in Callers : j # k => pc'[j] = pc[j] /\ arg'[j] = arg[j]
  BY DEF Unmark, Return, IInv, BaseInv, TypeCaller, TypeArg
<1>3. Unmarks(k)
  BY <1>2, MarkIs DEF Unmarks, Unmark, sessionVars, IInv, BaseInv, Removing
<1>. QED BY <1>1, <1>3, UnmarkKeeps DEF Unmark, Holding, Removing

LEMMA ClearKeeps == ASSUME Apart, IInv, NEW k \in Callers, Clear(k) PROVE IInv'
<1>1. BaseInv'
  BY BaseClear DEF IInv
<1>2. pc'[k] = "idle" /\ \A j \in Callers : j # k => pc'[j] = pc[j] /\ arg'[j] = arg[j]
  BY DEF Clear, Return, IInv, BaseInv, TypeCaller, TypeArg
<1>3. /\ \A s \in Slots : s \notin Mine(k) => slot'[s] = slot[s]
      /\ \A s \in Mine(k) : slot'[s] = Free
  BY DEF Clear, Mine
<1>4. Unmarks(k)
  BY <1>2, <1>3 DEF Unmarks, Free, Clear, sessionVars, Removing
<1>. QED BY <1>1, <1>4, UnmarkKeeps DEF Clear, Holding, Removing

LEMMA PurgeKeeps == ASSUME Apart, IInv, NEW k \in Callers, Purge(k) PROVE IInv'
<1>0. BaseInv' /\ pc[k] = "purging"
  BY BasePurge DEF IInv, Purge
<1>1. /\ arg' = arg /\ slot' = slot /\ core' = core /\ leaked' = leaked /\ nextId' = nextId
      /\ \A j \in Callers : j # k => pc'[j] = pc[j]
  BY DEF Purge, Goto, IInv, BaseInv, TypeCaller
<1>2. \/ pc'[k] = "clearing" /\ known' = known \ {arg[k].id}
      \/ pc'[k] = "unmarking" /\ known' = known
  BY DEF Purge, Goto, IInv, BaseInv, TypeCaller
<1>3. k \in Users /\ arg[k].id \in OwnIds(k)
  BY <1>0, MineAre DEF Holding
<1>4. HandInv'
  <2>. SUFFICES ASSUME NEW j \in Callers PROVE HandOf(j)'
    BY DEF HandInv
  <2>1. HandOf(j)
    BY DEF IInv, HandInv
  <2>2. CASE j = k
    BY <1>0, <1>1, <1>2, <2>1, <2>2 DEF HandOf, Holding, Removing
  <2>3. CASE j # k
    <3>1. pc[j] = "spawning" => arg[j].id # arg[k].id
      BY <1>3, <2>3, NobodyElse DEF IInv, BaseInv
    <3>. QED BY <1>1, <1>2, <2>1, <2>3, <3>1 DEF HandOf
  <2>. QED BY <2>2, <2>3
<1>5. SlotInv'
  BY <1>1 DEF IInv, SlotInv
<1>6. KnownInv'
  <2>1. \A x : (Given(x)' <=> Given(x)) /\ (Clearing(x) => Clearing(x)')
    BY <1>0, <1>1 DEF Given, Clearing
  <2>2. arg[k].id \in known' \/ Clearing(arg[k].id)' \/ arg[k].id \notin known
    BY <1>1, <1>2 DEF Clearing
  <2>3. \A x \in known : x \in known' \/ x = arg[k].id
    BY <1>2
  <2>. QED BY <1>1, <1>2, <2>1, <2>2, <2>3 DEF IInv, KnownInv
<1>7. CoreInv'
  <2>. SUFFICES ASSUME NEW c \in Cores, Live(c)' PROVE HomeOf(c)'
    BY DEF CoreInv
  <2>1. Live(c)
    BY <1>1 DEF Live
  <2>2. HomeOf(c)
    BY <2>1 DEF IInv, CoreInv
  <2>3. core[c].id # arg[k].id
    BY <1>0, <2>1, NoneLeft DEF Holding, Removing
  <2>4. Removed(c) => Removed(c)'
    BY <1>0, <1>1 DEF Removed, Removing
  <2>. QED BY <1>1, <1>2, <2>2, <2>3, <2>4 DEF HomeOf
<1>. QED BY <1>0, <1>4, <1>5, <1>6, <1>7 DEF IInv

LEMMA DeleteMarksKeeps == ASSUME Apart, IInv, NEW k \in Callers, DeleteMarks(k) PROVE IInv'
<1>0. BaseInv' /\ pc[k] = "marking"
  BY BaseDeleteMarks DEF IInv, DeleteMarks
<1>1. k \in Users /\ arg[k].id \in OwnIds(k) /\ arg[k].id \in Ids /\ arg[k].id # None
  BY <1>0, OwnIsId, ManagerAssumption DEF IInv, BaseInv, WorksOnOwn
<1>2. ASSUME NEW s \in Slots, slot[s].core # None, Remove(k, s, "deleting") PROVE IInv'
  BY <1>0, <1>1, <1>2, RemoveKeeps DEF DeleteMarks, Removing, sessionVars
<1>3. CASE /\ \A s \in Slots : Finds(arg[k].id, s) => ~slot[s].closing /\ slot[s].core = None
           /\ slot' = [s \in Slots |-> [slot[s] EXCEPT !.closing = @ \/ Finds(arg[k].id, s)]]
           /\ Goto(k, "purging") /\ UNCHANGED core
  <2>1. /\ core' = core /\ arg' = arg /\ pc'[k] = "purging"
        /\ \A j \in Callers : j # k => pc'[j] = pc[j]
    BY <1>3 DEF Goto, IInv, BaseInv, TypeCaller
  <2>2. known' = known /\ nextId' = nextId /\ leaked' = leaked
    BY DEF DeleteMarks, sessionVars
  <2>3. \A s \in Slots : Finds(arg[k].id, s) <=> slot[s].id = arg[k].id
    BY <1>1, FindsOne DEF IInv, BaseInv
  <2>4. \A s \in Slots : /\ slot'[s].id = slot[s].id /\ slot'[s].core = slot[s].core
                         /\ slot'[s].closing <=> slot[s].closing \/ Finds(arg[k].id, s)
    BY <1>3 DEF IInv, BaseInv, TypeSlot, SlotRecords
  <2>5. \A s \in Slots : slot[s].id = arg[k].id => slot'[s].closing /\ Vacant(s)
    BY <1>3, <2>3, <2>4 DEF Vacant
  <2>6. HandInv'
    <3>. SUFFICES ASSUME NEW j \in Callers PROVE HandOf(j)'
      BY DEF HandInv
    <3>1. HandOf(j)
      BY DEF IInv, HandInv
    <3>2. CASE j = k
      BY <2>1, <2>4, <2>5, <3>2 DEF HandOf, Removing, Vacant
    <3>3. CASE j # k
      BY <2>1, <2>2, <2>4, <3>1, <3>3 DEF HandOf
    <3>. QED BY <3>2, <3>3
  <2>7. SlotInv'
    <3>1. \A s \in Slots : slot[s].core # None /\ slot'[s].closing => slot[s].closing
      BY <2>3, <2>4, <2>5 DEF Vacant
    <3>. QED BY <2>1, <2>4, <3>1 DEF IInv, SlotInv
  <2>8. KnownInv'
    <3>1. \A x : (Given(x)' <=> Given(x)) /\ (Clearing(x) => Clearing(x)')
      BY <1>0, <2>1, <2>2 DEF Given, Clearing
    <3>. QED BY <2>2, <2>4, <3>1 DEF IInv, KnownInv
  <2>9. CoreInv'
    <3>. SUFFICES ASSUME NEW c \in Cores, Live(c)' PROVE HomeOf(c)'
      BY DEF CoreInv
    <3>1. Live(c)
      BY <2>1, <2>2 DEF Live
    <3>2. HomeOf(c) /\ core[c].slot \in Slots
      BY <3>1 DEF IInv, CoreInv, BaseInv, CreatedInOrder, Live
    <3>3. Removed(c) => Removed(c)'
      BY <1>0, <2>1 DEF Removed, Removing
    <3>. QED BY <2>1, <2>2, <2>4, <3>2, <3>3 DEF HomeOf
  <2>. QED BY <1>0, <2>6, <2>7, <2>8, <2>9 DEF IInv
<1>. QED BY <1>2, <1>3 DEF DeleteMarks

-----------------------------------------------------------------------------
(* The invariant.                                                           *)

LEMMA InvInit == Init => IInv
<1>. SUFFICES ASSUME Init PROVE IInv
  OBVIOUS
<1>1. BaseInv
  BY BaseInit
<1>2. HandInv
  BY DEF Init, HandInv, HandOf, Holding, Removing
<1>3. SlotInv /\ KnownInv
  BY DEF Init, SlotInv, KnownInv, Free
<1>4. CoreInv
  BY DEF Init, CoreInv, Live, Unborn
<1>. QED BY <1>1, <1>2, <1>3, <1>4 DEF IInv

LEMMA InvUsing == ASSUME Apart, IInv, NEW k \in Users, Using(k) PROVE IInv'
<1>1. CASE Spawn(k)
  BY <1>1, SpawnKeeps
<1>2. ASSUME NEW id \in OwnIds(k), Inspect(k, id) \/ SendStarts(k, id) \/ CloseAgent(k, id)
      PROVE  IInv'
  BY <1>2, InspectKeeps, SendStartsKeeps, CloseAgentKeeps
<1>3. ASSUME NEW id \in OwnIds(k),
             Send(k, id) \/ SendWaits(k, id) \/ CloseStopped(k, id) \/ DeleteAgent(k, id)
      PROVE  IInv'
  <2>1. BaseInv'
    BY <1>3, BaseSend, BaseSendWaits, BaseCloseStopped, BaseDeleteAgent DEF IInv
  <2>2. Quiet
    BY <1>3, QuietSend, QuietSendWaits, QuietCloseStopped, QuietDeleteAgent DEF IInv
  <2>. QED BY <2>1, <2>2, QuietKeeps
<1>. QED BY <1>1, <1>2, <1>3 DEF Using, OwnIds

LEMMA InvProceeding == ASSUME Apart, IInv, NEW k \in Callers, Proceeding(k) PROVE IInv'
<1>1. CASE \/ SpawnStarts(k) \/ SpawnFails(k) \/ CloseEnds(k) \/ DestroyTimeout(k)
           \/ DeleteMarks(k) \/ DeleteStopped(k) \/ Purge(k) \/ Unmark(k) \/ Clear(k)
  BY <1>1, SpawnStartsKeeps, SpawnFailsKeeps, CloseEndsKeeps, DestroyTimeoutKeeps,
     DeleteMarksKeeps, DeleteStoppedKeeps, PurgeKeeps, UnmarkStepKeeps, ClearKeeps
<1>2. CASE \/ SendEnds(k) \/ PostEnds(k) \/ DeleteRefused(k)
           \/ (\E c \in Cores : UpdateCore(k, c)) \/ UpdateEnds(k)
  <2>1. BaseInv'
    BY BaseProceeding DEF IInv
  <2>2. Quiet
    BY <1>2, QuietSendEnds, QuietPostEnds, QuietDeleteRefused, QuietUpdateCore, QuietUpdateEnds
    DEF IInv
  <2>. QED BY <2>1, <2>2, QuietKeeps
<1>. QED BY <1>1, <1>2 DEF Proceeding

LEMMA InvNext == Apart /\ IInv /\ [Next]_vars => IInv'
<1>. SUFFICES ASSUME Apart, IInv, [Next]_vars PROVE IInv'
  OBVIOUS
<1>0. BaseInv'
  BY BaseNext DEF IInv
<1>1. ASSUME NEW k \in Users, Using(k) PROVE IInv'
  BY <1>1, InvUsing
<1>2. ASSUME NEW k \in Callers, Proceeding(k) PROVE IInv'
  BY <1>2, InvProceeding
<1>3. ASSUME NEW k \in Callers, PostRoot(k) \/ Update(k) PROVE IInv'
  BY <1>0, <1>3, QuietPostRoot, QuietUpdate, QuietKeeps DEF IInv
<1>4. ASSUME NEW c \in Cores, Working(c) PROVE IInv'
  <2>1. Quiet
    BY <1>4, QuietLoop, QuietChat, QuietTurnFails, QuietTurnEnds, QuietSilenced, QuietReport,
       QuietReportEnds DEF IInv, Working, Reporting
  <2>. QED BY <1>0, <2>1, QuietKeeps
<1>5. CASE RootTakes
  BY <1>0, <1>5, QuietRootTakes, QuietKeeps DEF IInv
<1>6. CASE UNCHANGED vars
  <2>1. Quiet
    BY <1>6, SameSlots, SameCores, SameHands DEF Quiet, vars
  <2>. QED BY <1>0, <2>1, QuietKeeps
<1>. QED BY <1>1, <1>2, <1>3, <1>4, <1>5, <1>6 DEF Next

LEMMA OneHome ==
  ASSUME Apart, IInv, NEW c \in Cores, NEW d \in Cores, Live(c), Live(d), core[c].id = core[d].id
  PROVE  c = d
<1>. DEFINE s == core[c].slot
<1>1. s \in Slots /\ core[d].slot \in Slots /\ core[c].id # None /\ c # None /\ d # None
  BY ManagerAssumption DEF IInv, BaseInv, CreatedInOrder, Live
<1>2. HomeOf(c) /\ HomeOf(d)
  BY DEF IInv, CoreInv
<1>3. core[d].slot = s
  BY <1>1, <1>2 DEF HomeOf, IInv, SlotInv
<1>4. CASE slot[s].core # None
  BY <1>1, <1>2, <1>3, <1>4 DEF HomeOf, IInv, SlotInv
<1>5. CASE slot[s].core = None
  <2>1. PICK k \in Callers : pc[k] \in Removing /\ arg[k].core = c
    BY <1>1, <1>2, <1>5 DEF HomeOf, Removed
  <2>2. core[d].id = arg[k].id
    BY <2>1 DEF IInv, HandInv, HandOf
  <2>. QED BY <2>1, <2>2, NoneLeft DEF Holding
<1>. QED BY <1>4, <1>5

-----------------------------------------------------------------------------
(* The cores that run are those of known agents, each with the slot of its  *)
(* agent and that agent's name in its reports, when no two users work for   *)
(* the same session (claw_agent_mgr.c:1190-1319).                           *)
THEOREM CoresStayTheAgents == ASSUME Apart PROVE Spec => []CoresAreTheAgents
<1>1. IInv => CoresAreTheAgents
  BY DEF IInv, CoreInv, HomeOf, CoresAreTheAgents, ContextIsOwn, ReportIsOwn, LiveAgentIsKnown, Live
<1>2. IInv /\ [Next]_vars => IInv'
  BY InvNext
<1>. QED BY <1>1, <1>2, InvInit, PTL DEF Spec

-----------------------------------------------------------------------------
(* A core that is being destroyed, or was given up, has been asked to stop. *)
StopInv ==
  /\ \A c \in Cores : core[c].stop => core[c].at # "unborn"
  /\ \A k \in Callers : pc[k] \in Removing => core[arg[k].core].stop
  /\ \A c \in leaked : core[c].stop

(* No step takes the request to stop back, or begins a turn after it.       *)
CoresObey == \A c \in Cores : TakesNoMore(c) /\ (core'[c].stop => core'[c].at # "unborn")

(* What a step hands to a caller or gives up was asked to stop.             *)
HandsObey ==
  /\ \A k \in Callers : pc'[k] \in Removing =>
       (pc[k] \in Removing /\ arg'[k].core = arg[k].core) \/ core'[arg'[k].core].stop
  /\ \A c \in leaked' : c \in leaked \/ \E k \in Callers : pc[k] \in Removing /\ c = arg[k].core

LEMMA ObeyKeeps == ASSUME BaseInv, StopInv, CoresObey, HandsObey PROVE StopInv'
<1>1. \A k \in Callers : pc[k] \in Removing => arg[k].core \in Cores
  BY DEF BaseInv, WorksOnOwn
<1>2. leaked \subseteq Cores
  BY DEF BaseInv, TypeCaller
<1>3. \A c \in Cores : core[c].stop => core'[c].stop
  BY DEF CoresObey, TakesNoMore
<1>4. \A c \in Cores : core'[c].stop => core'[c].at # "unborn"
  BY DEF CoresObey
<1>5. \A k \in Callers : pc'[k] \in Removing => core'[arg'[k].core].stop
  BY <1>1, <1>3 DEF HandsObey, StopInv
<1>6. \A c \in leaked' : core'[c].stop
  BY <1>1, <1>2, <1>3 DEF HandsObey, StopInv
<1>. QED BY <1>4, <1>5, <1>6 DEF StopInv

LEMMA SameObey == StopInv /\ core' = core => CoresObey
BY DEF CoresObey, TakesNoMore, StopInv

LEMMA SameHandsObey == pc' = pc /\ arg' = arg /\ leaked' = leaked => HandsObey
BY DEF HandsObey

(* One caller goes somewhere else than to the end of a core.                *)
LEMMA ReturnObeys ==
  ASSUME NEW k, leaked' = leaked, pc'[k] \notin Removing,
         \A j \in Callers : j # k => pc'[j] = pc[j] /\ arg'[j] = arg[j]
  PROVE  HandsObey
BY DEF HandsObey

LEMMA StartObeys ==
  ASSUME BaseInv, StopInv, NEW id \in Ids, NEW s \in Slots, created < MaxCores,
         core' = [core EXCEPT ![created + 1] = Started(id, s, 1)]
  PROVE  CoresObey
<1>1. created + 1 \in Cores /\ created + 1 > created /\ 1 \in 0..QueueLen
  BY NewCore, ManagerAssumption DEF BaseInv
<1>2. core[created + 1].at = "unborn" /\ ~core[created + 1].stop
  BY <1>1 DEF BaseInv, CreatedInOrder, StopInv, TypeCore, CoreRecords
<1>3. core'[created + 1].at = "idle" /\ \A d \in Cores : d # created + 1 => core'[d] = core[d]
  BY <1>1, StartedTyped DEF BaseInv, TypeCore
<1>. QED BY <1>2, <1>3 DEF CoresObey, TakesNoMore, StopInv

LEMMA PushObeys ==
  ASSUME BaseInv, StopInv, NEW d \in Cores, Push(d) PROVE CoresObey
<1>1. \A c \in Cores : core'[c].at = core[c].at /\ core'[c].stop = core[c].stop
  BY DEF Push, BaseInv, TypeCore, CoreRecords
<1>. QED BY <1>1 DEF CoresObey, TakesNoMore, StopInv

LEMMA RemoveObeys ==
  ASSUME BaseInv, StopInv, NEW k \in Callers, NEW s \in Slots, NEW p, slot[s].core # None,
         slot[s].core \in Cores => core[slot[s].core].at # "unborn", leaked' = leaked,
         Remove(k, s, p)
  PROVE  CoresObey /\ HandsObey
<1>1. /\ slot[s].core \in Cores /\ arg'[k].core = slot[s].core
      /\ \A j \in Callers : j # k => arg'[j] = arg[j]
      /\ \A c \in Cores : core'[c].at = core[c].at
  BY RemoveTyped DEF BaseInv
<1>2. core'[slot[s].core].stop /\ \A c \in Cores : c # slot[s].core => core'[c] = core[c]
  BY <1>1 DEF Remove, BaseInv, TypeCore, CoreRecords
<1>3. CoresObey
  BY <1>1, <1>2 DEF CoresObey, TakesNoMore, StopInv
<1>4. \A j \in Callers : j # k => pc'[j] = pc[j]
  BY DEF Remove, BaseInv, TypeCaller
<1>5. HandsObey
  BY <1>1, <1>2, <1>4 DEF HandsObey
<1>. QED BY <1>3, <1>5

LEMMA WorkObeys ==
  ASSUME BaseInv, StopInv, NEW d \in Cores, Working(d) PROVE CoresObey /\ HandsObey
<1>1. core[d] \in CoreRecords
  BY DEF BaseInv, TypeCore
<1>2. pc' = pc /\ arg' = arg /\ leaked' = leaked
  BY DEF Working, Reporting, Loop, Chat, TurnFails, TurnEnds, Silenced, Report, ReportEnds
<1>3. \A c \in Cores : c # d => core'[c] = core[c]
  BY DEF Working, Reporting, Loop, Chat, TurnFails, TurnEnds, Silenced, Report, ReportEnds, Core,
         BaseInv, TypeCore
<1>4. core'[d].stop = core[d].stop /\ core'[d].at # "unborn"
  BY <1>1 DEF Working, Reporting, Loop, Chat, TurnFails, TurnEnds, Silenced, Report, ReportEnds,
         Core, BaseInv, TypeCore, CoreRecords
<1>5. core'[d].at = "turn" => ~core[d].stop \/ core[d].at \in {"turn", "chat"}
  BY <1>1 DEF Working, Reporting, Loop, Chat, TurnFails, TurnEnds, Silenced, Report, ReportEnds,
         Core, BaseInv, TypeCore, CoreRecords
<1>6. CoresObey
  BY <1>3, <1>4, <1>5 DEF CoresObey, TakesNoMore, StopInv
<1>. QED BY <1>2, <1>6, SameHandsObey

LEMMA UseObeys ==
  ASSUME IInv, StopInv, NEW k \in Users, Using(k) PROVE CoresObey /\ HandsObey
<1>1. k \in Callers /\ BaseInv
  BY ManagerAssumption DEF IInv
<1>2. \A s \in Slots : slot[s].core # None => core[slot[s].core].at # "unborn"
  BY DEF IInv, SlotInv
<1>3. CASE Spawn(k)
  <2>1. /\ core' = core /\ leaked' = leaked /\ pc'[k] \notin Removing
        /\ \A j \in Callers : j # k => pc'[j] = pc[j] /\ arg'[j] = arg[j]
    BY <1>1, <1>3 DEF Spawn, BaseInv, TypeCaller, TypeArg, Removing
  <2>. QED BY <1>1, <2>1, SameObey, ReturnObeys
<1>4. ASSUME NEW id \in OwnIds(k),
             Inspect(k, id) \/ SendStarts(k, id) \/ Send(k, id) \/ CloseStopped(k, id)
      PROVE  CoresObey /\ HandsObey
  <2>1. HandsObey
    BY <1>4, SameHandsObey DEF Inspect, SendStarts, Send, CloseStopped
  <2>2. CASE Inspect(k, id) \/ CloseStopped(k, id)
    BY <2>1, <2>2, SameObey DEF Inspect, CloseStopped
  <2>3. CASE SendStarts(k, id)
    <3>1. PICK s \in Slots : core' = [core EXCEPT ![created + 1] = Started(id, s, 1)]
      BY <2>3 DEF SendStarts
    <3>. QED BY <1>1, <2>1, <2>3, <3>1, StartObeys, OwnIsId DEF SendStarts
  <2>4. CASE Send(k, id)
    <3>1. PICK s \in Slots : slot[s].core # None /\ Push(slot[s].core)
      BY <2>4 DEF Send
    <3>2. slot[s].core \in Cores
      BY <1>1, <3>1 DEF BaseInv, TypeSlot, SlotRecords
    <3>. QED BY <1>1, <2>1, <3>1, <3>2, PushObeys
  <2>. QED BY <1>4, <2>2, <2>3, <2>4
<1>5. ASSUME NEW id \in OwnIds(k), SendWaits(k, id) \/ DeleteAgent(k, id)
      PROVE  CoresObey /\ HandsObey
  <2>1. /\ core' = core /\ leaked' = leaked /\ pc'[k] \notin Removing
        /\ \A j \in Callers : j # k => pc'[j] = pc[j] /\ arg'[j] = arg[j]
    BY <1>1, <1>5 DEF SendWaits, DeleteAgent, BaseInv, TypeCaller, TypeArg, Removing
  <2>. QED BY <1>1, <2>1, SameObey, ReturnObeys
<1>6. ASSUME NEW id \in OwnIds(k), CloseAgent(k, id) PROVE CoresObey /\ HandsObey
  <2>1. PICK s \in Slots : slot[s].core # None /\ Remove(k, s, "closing")
    BY <1>6 DEF CloseAgent
  <2>. QED BY <1>1, <1>2, <1>6, <2>1, RemoveObeys DEF CloseAgent
<1>. QED BY <1>3, <1>4, <1>5, <1>6 DEF Using, OwnIds

LEMMA ProceedObeys ==
  ASSUME IInv, StopInv, NEW k \in Callers, PostRoot(k) \/ Update(k) \/ Proceeding(k)
  PROVE  CoresObey /\ HandsObey
<1>1. BaseInv
  BY DEF IInv
<1>2. \A s \in Slots : slot[s].core # None => core[slot[s].core].at # "unborn"
  BY DEF IInv, SlotInv
<1>3. CASE SpawnStarts(k)
  <2>1. arg[k].id \in Ids
    BY <1>1, <1>3, OwnIsId DEF BaseInv, WorksOnOwn, SpawnStarts
  <2>2. CoresObey
    BY <1>1, <1>3, <2>1, FirstSlotIsFree, StartObeys DEF SpawnStarts
  <2>3. HandsObey
    BY <1>1, <1>3, ReturnObeys DEF SpawnStarts, Return, BaseInv, TypeCaller, TypeArg, Removing
  <2>. QED BY <2>2, <2>3
<1>4. CASE SendEnds(k)
  <2>1. arg[k].core \in Cores
    BY <1>1, <1>4 DEF BaseInv, WorksOnOwn, SendEnds
  <2>2. CoresObey
    BY <1>1, <1>4, <2>1, PushObeys, SameObey DEF SendEnds
  <2>3. HandsObey
    BY <1>1, <1>4, ReturnObeys DEF SendEnds, Return, BaseInv, TypeCaller, TypeArg, Removing
  <2>. QED BY <2>2, <2>3
<1>5. CASE DeleteMarks(k)
  <2>1. ASSUME NEW s \in Slots, slot[s].core # None, Remove(k, s, "deleting")
        PROVE  CoresObey /\ HandsObey
    BY <1>1, <1>2, <1>5, <2>1, RemoveObeys DEF DeleteMarks
  <2>2. CASE Goto(k, "purging") /\ core' = core
    <3>1. HandsObey
      BY <1>1, <1>5, <2>2, ReturnObeys DEF DeleteMarks, Goto, BaseInv, TypeCaller, Removing
    <3>. QED BY <2>2, <3>1, SameObey
  <2>. QED BY <1>5, <2>1, <2>2 DEF DeleteMarks
<1>6. CASE DestroyTimeout(k)
  <2>1. /\ core' = core /\ pc[k] \in Removing /\ leaked' = leaked \cup {arg[k].core}
        /\ pc'[k] \notin Removing
        /\ \A j \in Callers : j # k => pc'[j] = pc[j] /\ arg'[j] = arg[j]
    BY <1>1, <1>6 DEF DestroyTimeout, Return, BaseInv, TypeCaller, TypeArg, Removing
  <2>2. HandsObey
    BY <2>1 DEF HandsObey
  <2>. QED BY <2>1, <2>2, SameObey
<1>7. CASE PostRoot(k)
  <2>1. /\ core' = core /\ leaked' = leaked /\ arg' = arg
        /\ \A j \in Callers : pc'[j] = pc[j] \/ pc'[j] \notin Removing
    BY <1>1, <1>7 DEF PostRoot, BaseInv, TypeCaller, Removing
  <2>2. HandsObey
    BY <2>1 DEF HandsObey
  <2>. QED BY <2>1, <2>2, SameObey
<1>8. ASSUME SpawnFails(k) \/ PostEnds(k) \/ CloseEnds(k) \/ DeleteRefused(k) \/ DeleteStopped(k)
             \/ Purge(k) \/ Unmark(k) \/ Clear(k) \/ UpdateEnds(k) \/ Update(k)
      PROVE  CoresObey /\ HandsObey
  <2>1. /\ core' = core /\ leaked' = leaked /\ pc'[k] \notin Removing
        /\ \A j \in Callers : j # k => pc'[j] = pc[j] /\ arg'[j] = arg[j]
    BY <1>1, <1>8 DEF SpawnFails, PostEnds, CloseEnds, DeleteRefused, DeleteStopped, Purge, Unmark,
           Clear, UpdateEnds, Update, Return, Goto, BaseInv, TypeCaller, TypeArg, Removing
  <2>. QED BY <2>1, SameObey, ReturnObeys
<1>9. ASSUME NEW c \in Cores, UpdateCore(k, c) PROVE CoresObey /\ HandsObey
  BY <1>9, SameObey, SameHandsObey DEF UpdateCore
<1>. QED BY <1>3, <1>4, <1>5, <1>6, <1>7, <1>8, <1>9 DEF Proceeding

LEMMA StepObeys == ASSUME IInv, StopInv, [Next]_vars PROVE CoresObey /\ HandsObey
<1>1. BaseInv
  BY DEF IInv
<1>2. ASSUME NEW k \in Callers, PostRoot(k) \/ Update(k) \/ Proceeding(k)
      PROVE  CoresObey /\ HandsObey
  BY <1>2, ProceedObeys
<1>3. CASE RootTakes \/ UNCHANGED vars
  BY <1>3, SameObey, SameHandsObey DEF RootTakes, vars
<1>. QED BY <1>1, <1>2, <1>3, UseObeys, WorkObeys DEF Next

LEMMA StopInit == Init => StopInv
BY DEF Init, StopInv, Unborn, Removing

LEMMA StopNext == Apart /\ IInv /\ StopInv /\ [Next]_vars => StopInv'
BY StepObeys, ObeyKeeps DEF IInv

(* No two cores work on the session of one agent but for those given up,    *)
(* which have been asked to stop, when no two users work for the same       *)
(* session (claw_agent_mgr.c:875-888, 1196-1216).                           *)
THEOREM OneCoreEach == ASSUME Apart PROVE Spec => []OneCorePerSession
<1>1. IInv /\ StopInv => OneCorePerSession
  BY OneHome DEF OneCorePerSession, StopInv
<1>2. IInv /\ StopInv /\ [Next]_vars => IInv' /\ StopInv'
  BY InvNext, StopNext
<1>3. Init => IInv /\ StopInv
  BY InvInit, StopInit
<1>. QED BY <1>1, <1>2, <1>3, PTL DEF Spec

(* Only a report moves a core to where it reports.                          *)
LEMMA OnlyReport ==
  ASSUME BaseInv, BaseInv', [Next]_vars, NEW c \in Cores,
         core[c].at # "reporting", core'[c].at = "reporting"
  PROVE  Report(c)
<1>1. core' # core
  OBVIOUS
<1>2. ASSUME NEW s, NEW id \in Ids, s \in Slots, created < MaxCores,
             core' = [core EXCEPT ![created + 1] = Started(id, s, 1)]
      PROVE  FALSE
  <2>1. created + 1 \in Cores /\ 1 \in 0..QueueLen
    BY <1>2, NewCore, ManagerAssumption DEF BaseInv
  <2>2. core'[created + 1].at = "idle" /\ \A d \in Cores : d # created + 1 => core'[d] = core[d]
    BY <1>2, <2>1, StartedTyped DEF BaseInv, TypeCore
  <2>. QED BY <2>2
<1>3. ASSUME NEW k \in Users, Using(k) PROVE FALSE
  <2>1. PICK id \in OwnIds(k) : SendStarts(k, id) \/ Send(k, id) \/ CloseAgent(k, id)
    BY <1>1, <1>3 DEF Using, OwnIds, Spawn, Inspect, SendWaits, CloseStopped, DeleteAgent
  <2>2. k \in Callers /\ id \in Ids
    BY ManagerAssumption, OwnIsId
  <2>3. CASE SendStarts(k, id)
    BY <1>2, <2>2, <2>3 DEF SendStarts
  <2>4. CASE Send(k, id)
    <3>1. \A d \in Cores : core'[d].at = core[d].at
      BY <2>4 DEF Send, Push, BaseInv, TypeCore, CoreRecords
    <3>. QED BY <3>1
  <2>5. CASE CloseAgent(k, id)
    <3>1. PICK s \in Slots : slot[s].core # None /\ Remove(k, s, "closing")
      BY <2>5 DEF CloseAgent
    <3>. QED BY <2>2, <3>1, RemoveTyped DEF BaseInv
  <2>. QED BY <2>1, <2>3, <2>4, <2>5
<1>4. ASSUME NEW k \in Callers, PostRoot(k) \/ Update(k) \/ Proceeding(k) PROVE FALSE
  <2>1. CASE SpawnStarts(k)
    <3>1. arg[k].id \in Ids
      BY <2>1, OwnIsId DEF BaseInv, WorksOnOwn, SpawnStarts
    <3>. QED BY <1>2, <2>1, <3>1, FirstSlotIsFree DEF SpawnStarts
  <2>2. CASE SendEnds(k)
    <3>1. \A d \in Cores : core'[d].at = core[d].at
      BY <2>2 DEF SendEnds, Push, BaseInv, TypeCore, CoreRecords
    <3>. QED BY <3>1
  <2>3. CASE DeleteMarks(k)
    <3>1. PICK s \in Slots : slot[s].core # None /\ Remove(k, s, "deleting")
      BY <1>1, <2>3 DEF DeleteMarks
    <3>. QED BY <3>1, RemoveTyped DEF BaseInv
  <2>4. CASE ~SpawnStarts(k) /\ ~SendEnds(k) /\ ~DeleteMarks(k)
    BY <1>1, <1>4, <2>4
    DEF Proceeding, PostRoot, Update, SpawnFails, PostEnds, CloseEnds, DestroyTimeout,
        DeleteRefused, DeleteStopped, Purge, Unmark, Clear, UpdateCore, UpdateEnds
  <2>. QED BY <2>1, <2>2, <2>3, <2>4
<1>5. ASSUME NEW d \in Cores, Working(d) PROVE Report(c)
  <2>1. CASE Report(d)
    <3>1. d = c
      BY <2>1 DEF Report, BaseInv, TypeCore
    <3>. QED BY <2>1, <3>1
  <2>2. CASE Loop(d) \/ Chat(d) \/ TurnFails(d)
    BY <2>2 DEF Loop, Chat, TurnFails, Core, BaseInv, TypeCore, CoreRecords
  <2>3. CASE TurnEnds(d) \/ Silenced(d) \/ ReportEnds(d)
    BY <2>3 DEF TurnEnds, Silenced, ReportEnds, BaseInv, TypeCore, CoreRecords
  <2>. QED BY <1>5, <2>1, <2>2, <2>3 DEF Working, Reporting
<1>6. ~RootTakes /\ ~UNCHANGED vars
  BY <1>1 DEF RootTakes, vars
<1>. QED BY <1>3, <1>4, <1>5, <1>6 DEF Next

(* A core that was taken out of its slot reports no more unless it was      *)
(* given up, and takes no further request in any case, when no two users    *)
(* work for the same session (claw_agent_mgr.c:751-755).                    *)
THEOREM RemovedStaysSilent == ASSUME Apart PROVE Spec => RemovedIsSilent
<1>1. IInv /\ StopInv /\ [Next]_vars =>
        [\A c \in Cores : ReportsFromSlot(c) /\ TakesNoMore(c)]_vars
  <2>. SUFFICES ASSUME IInv, StopInv, [Next]_vars, NEW c \in Cores
                PROVE  ReportsFromSlot(c) /\ TakesNoMore(c)
    OBVIOUS
  <2>1. ASSUME core[c].at # "reporting", core'[c].at = "reporting", c \notin leaked
        PROVE  slot[core[c].slot].core = c
    <3>1. BaseInv' /\ Report(c)
      BY <2>1, BaseNext, OnlyReport DEF IInv
    <3>2. Live(c)
      BY <2>1, <3>1 DEF Live, Report
    <3>. QED BY <3>1, <3>2 DEF IInv, CoreInv, HomeOf, Report
  <2>2. TakesNoMore(c)
    BY StepObeys DEF CoresObey
  <2>. QED BY <2>1, <2>2 DEF ReportsFromSlot
<1>2. IInv /\ StopInv /\ [Next]_vars => IInv' /\ StopInv'
  BY InvNext, StopNext
<1>3. Init => IInv /\ StopInv
  BY InvInit, StopInit
<1>. QED BY <1>1, <1>2, <1>3, PTL DEF Spec, RemovedIsSilent
=============================================================================
