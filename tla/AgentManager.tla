---------------------------- MODULE AgentManager ----------------------------
(***************************************************************************)
(* The agent manager of claw_manager: it spawns the cores of subagents     *)
(* into a few slots, submits to them, closes and deletes them, and hands   *)
(* the report of a finished subagent to the root agent.                    *)
(*                                                                         *)
(* A slot is changed under the manager's mutex only.  The mutex is held    *)
(* while a submission waits for room in a core's queue and while a change  *)
(* of configuration waits for the cores that chat with their models; it is *)
(* not held while a core is destroyed and a session is deleted.  A core is *)
(* what its turns show of it: ClawCore is its model.  A user of the        *)
(* manager works for a session, whose children are the agents it names.    *)
(***************************************************************************)
EXTENDS Naturals, FiniteSets

CONSTANTS
  Callers,    \* tasks that use the manager
  Users,      \* those that spawn, feed and close subagents
  SessionOf,  \* the session each of them works for
  Root,       \* the user that runs the root agent's turns
  Slots,      \* slots of subagents
  QueueLen,   \* requests a core's queue takes
  MaxIds,     \* bound: subagents ever spawned for one session
  MaxCores,   \* bound: cores ever created
  None        \* no core, no agent

Sessions == {SessionOf[k] : k \in Users}

\* A child of a session, and its suffix there.
Ids == Sessions \X (1..MaxIds)
Cores == 1..MaxCores

ASSUME ManagerAssumption ==
  /\ Root \in Users /\ Users \subseteq Callers
  /\ Slots \subseteq Nat \ {0}
  /\ QueueLen \in Nat \ {0} /\ MaxIds \in Nat /\ MaxCores \in Nat
  /\ None \notin Cores /\ None \notin Ids

VARIABLES
  slot,      \* agents[1..]; None is a slot that is not occupied
  core,      \* the cores created, with the slot and the agent they are for
  created,   \* how many
  known,     \* children in the session manager's maps
  nextId,    \* the next_suffix of each map
  rootWork,  \* requests in the root core's queue
  holder,    \* who holds the mutex from one step to the next
  pc,        \* what each caller is doing
  arg,       \* the agent it does it to, and that agent's core
  updating,  \* cores a change of configuration has not come to
  leaked     \* history: cores whose destruction timed out

vars == <<slot, core, created, known, nextId, rootWork, holder, pc, arg, updating, leaked>>
sessionVars == <<known, nextId>>

Statuses == {"running", "idle", "closed", "error"}
Free == [id |-> None, status |-> "closed", closing |-> FALSE, core |-> None]
Unborn == [at |-> "unborn", id |-> None, slot |-> 0, work |-> 0, stop |-> FALSE,
           named |-> None]
NoArg == [id |-> None, core |-> None]

Init ==
  /\ slot = [s \in Slots |-> Free]
  /\ core = [c \in Cores |-> Unborn] /\ created = 0
  /\ known = {} /\ nextId = [p \in Sessions |-> 1]
  /\ rootWork = 0
  /\ holder = {}
  /\ pc = [k \in Callers |-> "idle"] /\ arg = [k \in Callers |-> NoArg]
  /\ updating = {}
  /\ leaked = {}

Lock == holder = {}

Return(k) == pc' = [pc EXCEPT ![k] = "idle"] /\ arg' = [arg EXCEPT ![k] = NoArg]
Goto(k, p) == pc' = [pc EXCEPT ![k] = p] /\ UNCHANGED arg

SlotsOf(id) == {s \in Slots : slot[s].id = id}

\* claw_agent_mgr_find_locked: the first slot with the id.
Finds(id, s) == s \in SlotsOf(id) /\ \A r \in SlotsOf(id) : s <= r

\* Faulty variant: the slot of a core that is being destroyed counts as free.
AllocatableClosing(s) == slot[s].id = None \/ (slot[s].status = "closed" /\ slot[s].core = None)

\* claw_agent_mgr_alloc_locked takes one that is free or closed for good.
Allocatable(s) ==
  slot[s].id = None \/ (slot[s].status = "closed" /\ slot[s].core = None /\ ~slot[s].closing)

\* The first slot that can be had; Slots are numbers.
FirstSlot == CHOOSE s \in Slots : Allocatable(s) /\ \A r \in Slots : Allocatable(r) => s <= r

Full == \A s \in Slots : ~Allocatable(s)

\* claw_agent_mgr_start_agent_core: the observer keeps a pointer to the slot.
Started(id, s, n) == [Unborn EXCEPT !.at = "idle", !.id = id, !.slot = s, !.work = n]

-----------------------------------------------------------------------------
(* Spawning and sending.                                                    *)

\* claw_session_mgr_alloc_subagent_session_id, before the mutex is taken.
Spawn(k) ==
  /\ pc[k] = "idle"
  /\ LET p == SessionOf[k]  id == <<p, nextId[p]>>
     IN  /\ nextId[p] <= MaxIds /\ nextId' = [nextId EXCEPT ![p] = @ + 1]
         /\ known' = known \cup {id}
         /\ arg' = [arg EXCEPT ![k].id = id]
  /\ pc' = [pc EXCEPT ![k] = "spawning"]
  /\ UNCHANGED <<slot, core, created, rootWork, holder, updating, leaked>>

\* The new core's queue is empty, so its first request is queued.
SpawnStarts(k) ==
  /\ pc[k] = "spawning" /\ Lock /\ ~Full /\ created < MaxCores
  /\ LET s == FirstSlot  id == arg[k].id  c == created + 1
     IN  /\ slot' = [slot EXCEPT ![s] = [id |-> id, status |-> "running",
                                         closing |-> FALSE, core |-> c]]
         /\ core' = [core EXCEPT ![c] = Started(id, s, 1)]
         /\ created' = c
  /\ Return(k)
  /\ UNCHANGED <<sessionVars, rootWork, holder, updating, leaked>>

\* No slot, or no memory for the core: the slot is cleared, the id stays known.
SpawnFails(k) ==
  /\ pc[k] = "spawning" /\ Lock
  /\ slot' = IF Full THEN slot ELSE [slot EXCEPT ![FirstSlot] = Free]
  /\ Return(k)
  /\ UNCHANGED <<core, created, sessionVars, rootWork, holder, updating, leaked>>

\* claw_agent_mgr_find_or_lazy_create_subagent_locked: the agent's slot, or
\* the one a known child without a slot gets.
FindsOrTakes(id, s) ==
  \/ Finds(id, s)
  \/ SlotsOf(id) = {} /\ id \in known /\ ~Full /\ s = FirstSlot

Taken(id, s) == IF slot[s].id = id THEN slot[s] ELSE [Free EXCEPT !.id = id]

\* claw_agent_mgr_inspect_agent, and a send that could not start a core.
Inspect(k, id) ==
  /\ pc[k] = "idle" /\ Lock
  /\ \E s \in Slots : FindsOrTakes(id, s) /\ slot' = [slot EXCEPT ![s] = Taken(id, s)]
  /\ UNCHANGED <<core, created, sessionVars, rootWork, holder, pc, arg, updating, leaked>>

\* Faulty variant: a core is started whether the agent has one or not.
SendStartsAnew(k, id) ==
  /\ pc[k] = "idle" /\ Lock /\ created < MaxCores
  /\ \E s \in Slots :
       /\ FindsOrTakes(id, s) /\ ~Taken(id, s).closing
       /\ slot' = [slot EXCEPT ![s] = [Taken(id, s) EXCEPT !.core = created + 1,
                                                          !.status = "running"]]
       /\ core' = [core EXCEPT ![created + 1] = Started(id, s, 1)]
  /\ created' = created + 1
  /\ UNCHANGED <<sessionVars, rootWork, holder, pc, arg, updating, leaked>>

\* send_subagent_input to an agent without a core: one is started, if the
\* agent is not being closed.
SendStarts(k, id) ==
  /\ pc[k] = "idle" /\ Lock /\ created < MaxCores
  /\ \E s \in Slots :
       /\ FindsOrTakes(id, s) /\ Taken(id, s).core = None /\ ~Taken(id, s).closing
       /\ slot' = [slot EXCEPT ![s] = [Taken(id, s) EXCEPT !.core = created + 1,
                                                          !.status = "running"]]
       /\ core' = [core EXCEPT ![created + 1] = Started(id, s, 1)]
  /\ created' = created + 1
  /\ UNCHANGED <<sessionVars, rootWork, holder, pc, arg, updating, leaked>>

Push(c) == core' = [core EXCEPT ![c].work = @ + 1]

\* Faulty variant: a request is queued without asking whether there is room.
SendBlindly(k, id) ==
  /\ pc[k] = "idle" /\ Lock
  /\ \E s \in Slots :
       /\ Finds(id, s) /\ slot[s].core # None
       /\ Push(slot[s].core)
       /\ slot' = [slot EXCEPT ![s].status = "running"]
  /\ UNCHANGED <<created, sessionVars, rootWork, holder, pc, arg, updating, leaked>>

Send(k, id) ==
  /\ pc[k] = "idle" /\ Lock
  /\ \E s \in Slots :
       /\ Finds(id, s) /\ slot[s].core # None /\ core[slot[s].core].work < QueueLen
       /\ Push(slot[s].core)
       /\ slot' = [slot EXCEPT ![s].status = "running"]
  /\ UNCHANGED <<created, sessionVars, rootWork, holder, pc, arg, updating, leaked>>

\* The queue is full: the caller waits, mutex in hand.
SendWaits(k, id) ==
  /\ pc[k] = "idle" /\ Lock
  /\ \E s \in Slots :
       /\ Finds(id, s) /\ slot[s].core # None /\ core[slot[s].core].work = QueueLen
       /\ arg' = [arg EXCEPT ![k] = [id |-> id, core |-> slot[s].core]]
  /\ holder' = {k}
  /\ pc' = [pc EXCEPT ![k] = "sending"]
  /\ UNCHANGED <<slot, core, created, sessionVars, rootWork, updating, leaked>>

SendEnds(k) ==
  /\ pc[k] = "sending"
  /\ LET c == arg[k].core
     IN  \/ /\ core[c].work < QueueLen /\ Push(c)
            /\ slot' = [slot EXCEPT ![core[c].slot].status = "running"]
         \/ slot' = [slot EXCEPT ![core[c].slot].status = "error"] /\ UNCHANGED core
  /\ holder' = {} /\ Return(k)
  /\ UNCHANGED <<created, sessionVars, rootWork, updating, leaked>>

\* claw_agent_mgr_submit_root: the router, the console.
PostRoot(k) ==
  /\ k # Root /\ pc[k] = "idle" /\ Lock
  /\ IF rootWork < QueueLen THEN rootWork' = rootWork + 1 /\ UNCHANGED <<holder, pc>>
     ELSE holder' = {k} /\ pc' = [pc EXCEPT ![k] = "posting"] /\ UNCHANGED rootWork
  /\ UNCHANGED <<slot, core, created, sessionVars, arg, updating, leaked>>

PostEnds(k) ==
  /\ pc[k] = "posting"
  /\ rootWork' \in {rootWork} \cup (IF rootWork < QueueLen THEN {rootWork + 1} ELSE {})
  /\ holder' = {} /\ Return(k)
  /\ UNCHANGED <<slot, core, created, sessionVars, updating, leaked>>

\* The root agent takes a request when its turn, with its calls, has ended.
RootTakes ==
  /\ rootWork > 0 /\ pc[Root] = "idle"
  /\ rootWork' = rootWork - 1
  /\ UNCHANGED <<slot, core, created, sessionVars, holder, pc, arg, updating, leaked>>

-----------------------------------------------------------------------------
(* Closing and deleting.                                                    *)

\* The core leaves its slot, which is marked until the core is destroyed.
Remove(k, s, p) ==
  /\ slot' = [slot EXCEPT ![s] = [@ EXCEPT !.core = None, !.status = "closed", !.closing = TRUE]]
  /\ core' = [core EXCEPT ![slot[s].core].stop = TRUE]
  /\ pc' = [pc EXCEPT ![k] = p]
  /\ arg' = [arg EXCEPT ![k] = [id |-> slot[s].id, core |-> slot[s].core]]

\* Faulty variant: the slot is not marked while its core is destroyed.
CloseUnmarked(k, id) == \E s \in Slots :
  /\ pc[k] = "idle" /\ Lock /\ Finds(id, s) /\ slot[s].core # None
  /\ slot' = [slot EXCEPT ![s] = [@ EXCEPT !.core = None, !.status = "closed"]]
  /\ core' = [core EXCEPT ![slot[s].core].stop = TRUE]
  /\ pc' = [pc EXCEPT ![k] = "closing"]
  /\ arg' = [arg EXCEPT ![k] = [id |-> slot[s].id, core |-> slot[s].core]]
  /\ UNCHANGED <<created, sessionVars, rootWork, holder, updating, leaked>>

CloseAgent(k, id) ==
  /\ pc[k] = "idle" /\ Lock
  /\ \E s \in Slots : Finds(id, s) /\ slot[s].core # None /\ Remove(k, s, "closing")
  /\ UNCHANGED <<created, sessionVars, rootWork, holder, updating, leaked>>

\* An agent without a core is closed at once, also while it is being deleted.
CloseStopped(k, id) ==
  /\ pc[k] = "idle" /\ Lock
  /\ \E s \in Slots : /\ Finds(id, s) /\ slot[s].core = None
                      /\ slot' = [slot EXCEPT ![s].status = "closed"]
  /\ UNCHANGED <<core, created, sessionVars, rootWork, holder, pc, arg, updating, leaked>>

\* The slot of the caller's agent, if it is still as the caller left it.
Mine(k) == {s \in Slots : Finds(arg[k].id, s) /\ slot[s].closing /\ slot[s].core = None}

Mark(k, status, closing) ==
  slot' = [s \in Slots |-> IF s \in Mine(k)
                           THEN [slot[s] EXCEPT !.status = status, !.closing = closing]
                           ELSE slot[s]]

Destroyed(k) == core[arg[k].core].at = "ended"

CloseEnds(k) ==
  /\ pc[k] = "closing" /\ Lock /\ Destroyed(k)
  /\ Mark(k, "closed", FALSE)
  /\ Return(k)
  /\ UNCHANGED <<core, created, sessionVars, rootWork, holder, updating, leaked>>

\* claw_core_destroy gives up after five seconds and leaves the core behind.
DestroyTimeout(k) ==
  /\ pc[k] \in {"closing", "deleting"} /\ Lock /\ ~Destroyed(k)
  /\ Mark(k, "error", FALSE)
  /\ leaked' = leaked \cup {arg[k].core}
  /\ Return(k)
  /\ UNCHANGED <<core, created, sessionVars, rootWork, holder, updating>>

\* claw_agent_mgr_delete_agent asks for the child before it takes the mutex.
DeleteAgent(k, id) ==
  /\ pc[k] = "idle" /\ id \in known
  /\ pc' = [pc EXCEPT ![k] = "marking"] /\ arg' = [arg EXCEPT ![k].id = id]
  /\ UNCHANGED <<slot, core, created, sessionVars, rootWork, holder, updating, leaked>>

DeleteRefused(k) ==
  /\ pc[k] = "marking" /\ Lock
  /\ \E s \in Slots : Finds(arg[k].id, s) /\ slot[s].closing
  /\ Return(k)
  /\ UNCHANGED <<slot, core, created, sessionVars, rootWork, holder, updating, leaked>>

DeleteMarks(k) ==
  /\ pc[k] = "marking" /\ Lock
  /\ \/ \E s \in Slots : /\ Finds(arg[k].id, s) /\ ~slot[s].closing /\ slot[s].core # None
                         /\ Remove(k, s, "deleting")
     \/ /\ \A s \in Slots : Finds(arg[k].id, s) => ~slot[s].closing /\ slot[s].core = None
        /\ slot' = [s \in Slots |->
                     [slot[s] EXCEPT !.closing = @ \/ Finds(arg[k].id, s)]]
        /\ Goto(k, "purging") /\ UNCHANGED core
  /\ UNCHANGED <<created, sessionVars, rootWork, holder, updating, leaked>>

DeleteStopped(k) ==
  /\ pc[k] = "deleting" /\ Lock /\ Destroyed(k)
  /\ Mark(k, "closed", TRUE)
  /\ Goto(k, "purging")
  /\ UNCHANGED <<core, created, sessionVars, rootWork, holder, updating, leaked>>

\* claw_session_mgr_delete_subagent_session: history, then map.
Purge(k) ==
  /\ pc[k] = "purging"
  /\ \/ arg[k].id \in known /\ known' = known \ {arg[k].id} /\ Goto(k, "clearing")
     \/ UNCHANGED known /\ Goto(k, "unmarking")
  /\ UNCHANGED <<slot, core, created, nextId, rootWork, holder, updating, leaked>>

\* Faulty variant: an agent whose session could not be deleted stays marked.
UnmarkNothing(k) ==
  /\ pc[k] = "unmarking" /\ Lock
  /\ Return(k)
  /\ UNCHANGED <<slot, core, created, sessionVars, rootWork, holder, updating, leaked>>

Unmark(k) ==
  /\ pc[k] = "unmarking" /\ Lock
  /\ Mark(k, "error", FALSE)
  /\ Return(k)
  /\ UNCHANGED <<core, created, sessionVars, rootWork, holder, updating, leaked>>

\* Faulty variant: the session goes, the slot stays as it was before.
ClearNothing(k) ==
  /\ pc[k] = "clearing" /\ Lock
  /\ Mark(k, "closed", FALSE)
  /\ Return(k)
  /\ UNCHANGED <<core, created, sessionVars, rootWork, holder, updating, leaked>>

Clear(k) ==
  /\ pc[k] = "clearing" /\ Lock
  /\ slot' = [s \in Slots |-> IF s \in Mine(k) THEN Free ELSE slot[s]]
  /\ Return(k)
  /\ UNCHANGED <<core, created, sessionVars, rootWork, holder, updating, leaked>>

-----------------------------------------------------------------------------
(* The cores: turns and reports.                                            *)

Core(c, at) == core' = [core EXCEPT ![c].at = at]

\* The loop of a core: it ends when it is asked to, else takes a request.
Loop(c) ==
  /\ core[c].at = "idle"
  /\ \/ core[c].stop /\ Core(c, "ended")
     \/ ~core[c].stop /\ core[c].work > 0
        /\ core' = [core EXCEPT ![c].at = "turn", ![c].work = @ - 1]
  /\ UNCHANGED <<slot, created, sessionVars, rootWork, holder, pc, arg, updating, leaked>>

\* A turn goes to the model and back, with the core's llm_lock.
Chat(c) ==
  /\ \/ core[c].at = "turn" /\ ~core[c].stop /\ Core(c, "chat")
     \/ core[c].at = "chat" /\ Core(c, "turn")
  /\ UNCHANGED <<slot, created, sessionVars, rootWork, holder, pc, arg, updating, leaked>>

\* A turn that fails or is cancelled tells no observer.
TurnFails(c) ==
  /\ core[c].at = "turn" /\ Core(c, "idle")
  /\ UNCHANGED <<slot, created, sessionVars, rootWork, holder, pc, arg, updating, leaked>>

\* The observer begins its text with the id in the slot, without the mutex; a
\* slot that was cleared ends it.
TurnEnds(c) ==
  /\ core[c].at = "turn"
  /\ LET id == slot[core[c].slot].id
     IN  core' = [core EXCEPT ![c].named = id, ![c].at = IF id = None THEN "idle" ELSE "report"]
  /\ UNCHANGED <<slot, created, sessionVars, rootWork, holder, pc, arg, updating, leaked>>

\* The agent is being closed or deleted: the observer returns.
Silenced(c) ==
  /\ core[c].at = "report" /\ Lock /\ slot[core[c].slot].closing
  /\ core' = [core EXCEPT ![c].at = "idle", ![c].named = None]
  /\ UNCHANGED <<slot, created, sessionVars, rootWork, holder, pc, arg, updating, leaked>>

\* Faulty variant: the observer does not ask whether its agent is closing.
ReportAlways(c) ==
  /\ core[c].at = "report" /\ Lock
  /\ slot' = [slot EXCEPT ![core[c].slot].status = "idle"]
  /\ core' = [core EXCEPT ![c].at = "reporting"] /\ holder' = {c}
  /\ UNCHANGED <<created, sessionVars, rootWork, pc, arg, updating, leaked>>

\* The report is submitted to the root agent, mutex in hand.
Report(c) ==
  /\ core[c].at = "report" /\ Lock /\ ~slot[core[c].slot].closing
  /\ slot' = [slot EXCEPT ![core[c].slot].status = "idle"]
  /\ core' = [core EXCEPT ![c].at = "reporting"] /\ holder' = {c}
  /\ UNCHANGED <<created, sessionVars, rootWork, pc, arg, updating, leaked>>

\* Faulty variant: the observer waits for room as long as it takes.
ReportWaits(c) ==
  /\ core[c].at = "reporting" /\ rootWork < QueueLen
  /\ rootWork' = rootWork + 1
  /\ core' = [core EXCEPT ![c].at = "idle", ![c].named = None] /\ holder' = {}
  /\ UNCHANGED <<slot, created, sessionVars, pc, arg, updating, leaked>>

\* There is room, or the second is over.
ReportEnds(c) ==
  /\ core[c].at = "reporting"
  /\ rootWork' \in {rootWork} \cup (IF rootWork < QueueLen THEN {rootWork + 1} ELSE {})
  /\ core' = [core EXCEPT ![c].at = "idle", ![c].named = None] /\ holder' = {}
  /\ UNCHANGED <<slot, created, sessionVars, pc, arg, updating, leaked>>

-----------------------------------------------------------------------------
(* Changing the configuration: claw_agent_mgr_update_core_config.           *)

Update(k) ==
  /\ pc[k] = "idle" /\ Lock
  /\ updating' = {slot[s].core : s \in Slots} \ {None}
  /\ holder' = {k} /\ Goto(k, "updating")
  /\ UNCHANGED <<slot, core, created, sessionVars, rootWork, leaked>>

UpdateCore(k, c) ==
  /\ pc[k] = "updating" /\ c \in updating /\ core[c].at # "chat"
  /\ updating' = updating \ {c}
  /\ UNCHANGED <<slot, core, created, sessionVars, rootWork, holder, pc, arg, leaked>>

UpdateEnds(k) ==
  /\ pc[k] = "updating" /\ updating = {}
  /\ holder' = {} /\ Return(k)
  /\ UNCHANGED <<slot, core, created, sessionVars, rootWork, updating, leaked>>

-----------------------------------------------------------------------------
Using(k) ==
  \/ Spawn(k)
  \/ \E id \in {SessionOf[k]} \X (1..MaxIds) :
       \/ Inspect(k, id) \/ SendStarts(k, id) \/ Send(k, id) \/ SendWaits(k, id)
       \/ CloseAgent(k, id) \/ CloseStopped(k, id) \/ DeleteAgent(k, id)

Proceeding(k) ==
  \/ SpawnStarts(k) \/ SpawnFails(k) \/ SendEnds(k) \/ PostEnds(k)
  \/ CloseEnds(k) \/ DestroyTimeout(k)
  \/ DeleteRefused(k) \/ DeleteMarks(k) \/ DeleteStopped(k)
  \/ Purge(k) \/ Unmark(k) \/ Clear(k)
  \/ (\E c \in Cores : UpdateCore(k, c)) \/ UpdateEnds(k)

Reporting(c) == Silenced(c) \/ Report(c) \/ ReportEnds(c)

Working(c) == Loop(c) \/ Chat(c) \/ TurnFails(c) \/ TurnEnds(c) \/ Reporting(c)

Next ==
  \/ \E k \in Users : Using(k)
  \/ \E k \in Callers : PostRoot(k) \/ Update(k) \/ Proceeding(k)
  \/ \E c \in Cores : Working(c)
  \/ RootTakes

\* Waits end at their timeout, chats at the model's; the mutex is given to a
\* task that waits for it.
Fairness ==
  /\ \A k \in Callers : SF_vars(Proceeding(k))
  /\ \A c \in Cores : SF_vars(Reporting(c)) /\ WF_vars(core[c].at = "chat" /\ Chat(c))

Spec == Init /\ [][Next]_vars /\ Fairness

-----------------------------------------------------------------------------
(* Properties.                                                              *)

TypeOK ==
  /\ slot \in [Slots -> [id : Ids \cup {None}, status : Statuses, closing : BOOLEAN,
                         core : Cores \cup {None}]]
  /\ core \in [Cores -> [at : {"unborn", "idle", "turn", "chat", "report", "reporting", "ended"},
                         id : Ids \cup {None}, slot : Slots \cup {0}, work : 0..QueueLen,
                         stop : BOOLEAN, named : Ids \cup {None}]]
  /\ created \in 0..MaxCores /\ nextId \in [Sessions -> 1..(MaxIds + 1)] /\ known \subseteq Ids
  /\ rootWork \in 0..QueueLen
  /\ holder \subseteq Callers \cup Cores /\ Cardinality(holder) <= 1
  /\ pc \in [Callers -> {"idle", "spawning", "sending", "posting", "closing",
                         "marking", "deleting", "purging", "unmarking", "clearing", "updating"}]
  /\ arg \in [Callers -> [id : Ids \cup {None}, core : Cores \cup {None}]]
  /\ updating \subseteq Cores /\ leaked \subseteq Cores

\* A core is abandoned when its destruction times out: the manager frees its
\* slot and forgets it, while its task goes on (claw_agent_mgr.c:1201-1216).
\* What is said of live cores is not said of abandoned ones: such a core may
\* point to a slot that another agent got since, write the history beside its
\* successor, and report once more, in the name of whoever has the slot.
Live(c) == core[c].at \notin {"unborn", "ended"} /\ c \notin leaked

\* The slot a core's observer and its capabilities point to is its agent's as
\* long as the core runs, unless it was abandoned: it is not handed to another
\* agent under it (claw_agent_mgr.c:304-321, 574-606 against 1190-1213).
ContextIsOwn == \A c \in Cores : Live(c) => slot[core[c].slot].id = core[c].id

\* No two cores that are not abandoned work on the session of one agent, and an
\* abandoned one has been asked to stop: its history has one writer, but for the
\* turn an abandoned core is still in (claw_agent_mgr.c:875-888, 1196-1216).
OneCorePerSession ==
  /\ \A c, d \in Cores : Live(c) /\ Live(d) /\ core[c].id = core[d].id => c = d
  /\ \A c \in leaked : core[c].stop

\* A report names the agent whose core did the work, unless that core was
\* abandoned, although the observer reads the name from the slot without the
\* mutex (claw_agent_mgr.c:725-734).
ReportIsOwn ==
  \A c \in Cores : core[c].at = "reporting" /\ Live(c) => core[c].named = core[c].id

\* The report is that of a core in its slot, or of an abandoned one.
ReportsFromSlot(c) ==
  core[c].at # "reporting" /\ core'[c].at = "reporting" =>
    c \in leaked \/ slot[core[c].slot].core = c

\* A core asked to stop ends with the turn it is in.
TakesNoMore(c) ==
  core[c].stop => core'[c].stop /\ (core'[c].at = "turn" => core[c].at \in {"turn", "chat"})

\* A core that was taken out of its slot reports no more: the root agent hears
\* nothing of an agent after its close began, unless the close gave its core up
\* (claw_agent_mgr.c:751-755).  Abandoned or not, such a core takes no further
\* request, so an abandoned one reports at most the turn it was in.
RemovedIsSilent == [][\A c \in Cores : ReportsFromSlot(c) /\ TakesNoMore(c)]_vars

\* An agent is marked as closing only while somebody closes or deletes it;
\* otherwise it could never be used, closed for good or deleted again
\* (claw_agent_mgr.c:1203-1213, 1251-1313).
ClosingHasCloser ==
  \A s \in Slots : slot[s].closing =>
    \E k \in Callers : arg[k].id = slot[s].id
                       /\ pc[k] \in {"closing", "deleting", "purging", "unmarking", "clearing"}

\* An agent that runs belongs to a session that exists, also right after its
\* deletion; an abandoned core may outlive it (claw_agent_mgr.c:1247-1319).
LiveAgentIsKnown == \A c \in Cores : Live(c) => core[c].id \in known

\* The cores that run and were not abandoned are those of agents that exist, each
\* with its own slot and its own name in its reports (claw_agent_mgr.c:1190-1319).
CoresAreTheAgents == ContextIsOwn /\ ReportIsOwn /\ LiveAgentIsKnown

\* Every call returns, and every observer gets through, although both hold the
\* mutex while they wait for queues of one another
\* (claw_agent_mgr.c:755-773, 1045-1062).
CallsReturn == \A k \in Callers : pc[k] # "idle" ~> pc[k] = "idle"
ReportsEnd == \A c \in Cores : core[c].at = "report" ~> core[c].at = "idle"

\* Nobody and nothing is stuck for good: callers, observers, agents being closed
\* (claw_agent_mgr.c:755-773, 1045-1062, 1203-1213).
AllGetThrough == CallsReturn /\ ReportsEnd /\ []ClosingHasCloser
=============================================================================
