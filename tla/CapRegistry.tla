---------------------------- MODULE CapRegistry ----------------------------
(***************************************************************************)
(* The capability runtime of claw_cap: groups of capabilities that are     *)
(* enabled, disabled and unregistered by one managing task (the boot       *)
(* sequence, then the console) while agents, the event router and other    *)
(* tasks call their capabilities.                                          *)
(*                                                                         *)
(* Each section under the runtime mutex is one action.  The callbacks of a *)
(* group and the execution of a capability run outside of the mutex, so    *)
(* calls begin and return between any two callbacks.  Groups are           *)
(* registered at boot only; which callers a capability is visible to only  *)
(* refuses calls, and is left out.                                         *)
(***************************************************************************)
EXTENDS Naturals, Sequences, FiniteSets

CONSTANTS
  Groups,    \* registered groups
  Caps,      \* their descriptors
  Members,   \* the descriptors of each group, in order
  Callers,   \* tasks that call capabilities
  NoGroup,   \* the manager has no group in hand
  NoCap      \* a caller executes nothing

GroupOf(c) == CHOOSE g \in Groups : \E i \in DOMAIN Members[g] : Members[g][i] = c

ASSUME RegistryAssumption ==
  /\ Members \in [Groups -> Seq(Caps)]
  /\ \A c \in Caps : \E g \in Groups : \E i \in DOMAIN Members[g] : Members[g][i] = c
  /\ \A g, h \in Groups : \A i \in DOMAIN Members[g], j \in DOMAIN Members[h] :
       Members[g][i] = Members[h][j] => g = h /\ i = j
  /\ NoGroup \notin Groups /\ NoCap \notin Caps
  /\ IsFiniteSet(Callers)

VARIABLES
  groupState,   \* group_slot->state; "free" is a slot that is not occupied
  capState,     \* descriptor_slot->state, likewise
  inited,       \* descriptor_slot->init_called
  active,       \* descriptor_slot->active_calls
  executing,    \* the capability each caller executes
  toBoot,       \* groups claw_cap_start_all has not come to
  op,           \* what the managing task is doing
  target,       \* the group it is doing it to
  next,         \* the member whose callbacks are next
  running       \* history: capabilities started and not stopped since

callVars == <<active, executing>>
opVars == <<op, target, next>>
vars == <<groupState, capState, inited, callVars, toBoot, opVars, running>>

States == {"free", "registered", "started", "disabled", "draining", "unloading"}

Ops == {"idle", "starting", "failed", "stopping", "polling", "unloading", "clearing"}

Init ==
  /\ groupState = [g \in Groups |-> "registered"]
  /\ capState = [c \in Caps |-> "registered"]
  /\ inited = [c \in Caps |-> FALSE]
  /\ active = [c \in Caps |-> 0]
  /\ executing = [k \in Callers |-> NoCap]
  /\ toBoot = Groups
  /\ op = "idle" /\ target = NoGroup /\ next = 0
  /\ running = {}

\* A group and its members change state in one critical section.
SetState(g, s) ==
  /\ groupState' = [groupState EXCEPT ![g] = s]
  /\ capState' = [c \in Caps |-> IF GroupOf(c) = g THEN s ELSE capState[c]]

Begin(o, g, n) == op' = o /\ target' = g /\ next' = n

Done == op' = "idle" /\ target' = NoGroup /\ next' = 0

-----------------------------------------------------------------------------
(* Enabling a group.                                                        *)

\* The group is open to calls from here on, before its callbacks have run.
Open(g) ==
  /\ op = "idle"
  /\ groupState[g] \in {"registered", "disabled"}
  /\ SetState(g, "started")
  /\ Begin("starting", g, 1)
  /\ UNCHANGED <<inited, callVars, running>>

\* claw_cap_start_all comes to the groups one by one.
BootGroup(g) ==
  /\ g \in toBoot
  /\ Open(g)
  /\ toBoot' = toBoot \ {g}

EnableGroup(g) ==
  /\ toBoot = {}
  /\ Open(g)
  /\ UNCHANGED toBoot

\* claw_cap_start_group_callbacks: the group's own callback or the init
\* callback of a member fails.
StartFails ==
  /\ op = "starting"
  /\ op' = "failed"
  /\ UNCHANGED <<groupState, capState, inited, callVars, toBoot, target, next, running>>

\* The init callback runs once in the life of a descriptor; then the start
\* callback runs, and may fail when init has not.
StartMember ==
  /\ op = "starting" /\ next <= Len(Members[target])
  /\ LET c == Members[target][next]
     IN  /\ inited' = [inited EXCEPT ![c] = TRUE]
         /\ \/ running' = running \cup {c} /\ next' = next + 1 /\ UNCHANGED op
            \/ op' = "failed" /\ UNCHANGED <<running, next>>
  /\ UNCHANGED <<groupState, capState, callVars, toBoot, target>>

StartDone ==
  /\ op = "starting" /\ next > Len(Members[target])
  /\ Done
  /\ UNCHANGED <<groupState, capState, inited, callVars, toBoot, running>>

\* Faulty variant: the group stays open when its callbacks have failed.
UndoNothing ==
  /\ op = "failed"
  /\ Done
  /\ UNCHANGED <<groupState, capState, inited, callVars, toBoot, running>>

\* The members started before the failure are not stopped.
UndoEnable ==
  /\ op = "failed"
  /\ SetState(target, "disabled")
  /\ Done
  /\ UNCHANGED <<inited, callVars, toBoot, running>>

-----------------------------------------------------------------------------
(* Disabling and unregistering a group.                                     *)

\* Faulty variant: the members of the group stay callable.
DisableGroupOnly(g) ==
  /\ op = "idle" /\ toBoot = {}
  /\ groupState[g] \in {"registered", "started"}
  /\ groupState' = [groupState EXCEPT ![g] = "disabled"]
  /\ Begin("stopping", g, Len(Members[g]))
  /\ UNCHANGED <<capState, inited, callVars, toBoot, running>>

\* Calls that are executing are not waited for.
DisableGroup(g) ==
  /\ op = "idle" /\ toBoot = {}
  /\ groupState[g] \in {"registered", "started"}
  /\ SetState(g, "disabled")
  /\ Begin("stopping", g, Len(Members[g]))
  /\ UNCHANGED <<inited, callVars, toBoot, running>>

\* Also called again after a timeout has left the group draining.
UnregisterGroup(g) ==
  /\ op = "idle" /\ toBoot = {}
  /\ groupState[g] \notin {"free", "unloading"}
  /\ SetState(g, "draining")
  /\ Begin("polling", g, 0)
  /\ UNCHANGED <<inited, callVars, toBoot, running>>

\* Faulty variant: only the group's first member is asked for calls.
HasActiveCallsFirst(g) == active[Members[g][1]] > 0

\* claw_cap_group_has_active_calls_locked
HasActiveCalls(g) == \E c \in Caps : GroupOf(c) = g /\ active[c] > 0

\* The last poll finds no active call.
Unload ==
  /\ op = "polling" /\ ~HasActiveCalls(target)
  /\ SetState(target, "unloading")
  /\ Begin("unloading", target, Len(Members[target]))
  /\ UNCHANGED <<inited, callVars, toBoot, running>>

PollTimeout ==
  /\ op = "polling" /\ HasActiveCalls(target)
  /\ Done
  /\ UNCHANGED <<groupState, capState, inited, callVars, toBoot, running>>

\* claw_cap_stop_group_callbacks: members in reverse order, failures ignored.
StopMember ==
  /\ op \in {"stopping", "unloading"} /\ next > 0
  /\ running' = running \ {Members[target][next]}
  /\ next' = next - 1
  /\ UNCHANGED <<groupState, capState, inited, callVars, toBoot, op, target>>

DisableDone ==
  /\ op = "stopping" /\ next = 0
  /\ Done
  /\ UNCHANGED <<groupState, capState, inited, callVars, toBoot, running>>

\* claw_cap_clear_group_slot_locked
Clear ==
  /\ op = "unloading" /\ next = 0
  /\ SetState(target, "free")
  /\ inited' = [c \in Caps |-> inited[c] /\ GroupOf(c) # target]
  /\ active' = [c \in Caps |-> IF GroupOf(c) = target THEN 0 ELSE active[c]]
  /\ Done
  /\ UNCHANGED <<executing, toBoot, running>>

-----------------------------------------------------------------------------
(* Calling: claw_cap_call.                                                  *)

\* Faulty variant: the call is not counted.
CallUncounted(k, c) ==
  /\ toBoot = {} /\ executing[k] = NoCap
  /\ capState[c] \in {"registered", "started"}
  /\ executing' = [executing EXCEPT ![k] = c]
  /\ UNCHANGED <<groupState, capState, inited, active, toBoot, opVars, running>>

\* Faulty variant: a draining group still takes calls.
CallDraining(k, c) ==
  /\ toBoot = {} /\ executing[k] = NoCap
  /\ capState[c] \in {"registered", "started", "draining"}
  /\ active' = [active EXCEPT ![c] = @ + 1]
  /\ executing' = [executing EXCEPT ![k] = c]
  /\ UNCHANGED <<groupState, capState, inited, toBoot, opVars, running>>

\* The tasks that call start after the boot sequence has started all groups.
Call(k, c) ==
  /\ toBoot = {} /\ executing[k] = NoCap
  /\ capState[c] \in {"registered", "started"}
  /\ active' = [active EXCEPT ![c] = @ + 1]
  /\ executing' = [executing EXCEPT ![k] = c]
  /\ UNCHANGED <<groupState, capState, inited, toBoot, opVars, running>>

\* Faulty variant: the error path counts the call down once more.
ReturnTwice(k) ==
  /\ executing[k] # NoCap
  /\ active' = [active EXCEPT ![executing[k]] = @ - 2]
  /\ executing' = [executing EXCEPT ![k] = NoCap]
  /\ UNCHANGED <<groupState, capState, inited, toBoot, opVars, running>>

\* The slot is left alone when it is no longer occupied, or counts no call.
Return(k) ==
  /\ executing[k] # NoCap
  /\ LET c == executing[k]
     IN  active' = IF capState[c] # "free" /\ active[c] > 0
                   THEN [active EXCEPT ![c] = @ - 1] ELSE active
  /\ executing' = [executing EXCEPT ![k] = NoCap]
  /\ UNCHANGED <<groupState, capState, inited, toBoot, opVars, running>>

-----------------------------------------------------------------------------
Manager ==
  \/ \E g \in Groups : BootGroup(g) \/ EnableGroup(g) \/ DisableGroup(g) \/ UnregisterGroup(g)
  \/ StartFails \/ StartMember \/ StartDone \/ UndoEnable
  \/ Unload \/ PollTimeout \/ StopMember \/ DisableDone \/ Clear

Caller(k) == (\E c \in Caps : Call(k, c)) \/ Return(k)

Next == Manager \/ \E k \in Callers : Caller(k)

\* Callbacks and capabilities return.
Fairness ==
  /\ WF_vars(StartFails \/ StartMember \/ StartDone \/ UndoEnable)
  /\ WF_vars(Unload \/ StopMember \/ DisableDone \/ Clear)
  /\ \A k \in Callers : WF_vars(Return(k))

Spec == Init /\ [][Next]_vars /\ Fairness

-----------------------------------------------------------------------------
(* Properties.                                                              *)

TypeOK ==
  /\ groupState \in [Groups -> States]
  /\ capState \in [Caps -> States]
  /\ inited \in [Caps -> BOOLEAN]
  /\ active \in [Caps -> Nat]
  /\ executing \in [Callers -> Caps \cup {NoCap}]
  /\ toBoot \subseteq Groups
  /\ op \in Ops
  /\ target \in Groups \cup {NoGroup}
  /\ next \in Nat
  /\ running \subseteq Caps

\* A capability is callable exactly when its group is: no transition leaves a
\* member behind (claw_cap.c:1007-1028, 1138-1190, 1591-1600).
MembersFollowGroup == \A c \in Caps : capState[c] = groupState[GroupOf(c)]

Executing(c) == {k \in Callers : executing[k] = c}

\* The counter of a descriptor is the number of its calls between the two
\* critical sections of claw_cap_call (claw_cap.c:1843-1866).
CallsCounted == \A c \in Caps : active[c] = Cardinality(Executing(c))

\* No call executes a capability whose group is being unloaded or is gone, so
\* the stop callbacks of an unregistered group run alone and its memory may be
\* reclaimed (claw_cap.c:1604-1632 against 1843-1866).
NoCallOnUnloaded ==
  \A k \in Callers : executing[k] # NoCap =>
    groupState[GroupOf(executing[k])] \notin {"unloading", "free"}

\* Calls meet the state of their group: its members have it, each call counts,
\* and unloading waits for the calls and lets none in (claw_cap.c:1591-1632).
CallsAreSafe == MembersFollowGroup /\ CallsCounted /\ NoCallOnUnloaded

\* When the managing task is through with a group, it is open to calls only if
\* all its members have been initialised and started; an enable that failed
\* half-way leaves it closed (claw_cap.c:1513-1529).
OpenIsReady ==
  op = "idle" => \A c \in Caps : groupState[GroupOf(c)] = "started" =>
                                   inited[c] /\ c \in running

\* The unregistration of a group, once begun, ends: its calls return and no new
\* ones come in, or the caller gives up at the timeout (claw_cap.c:1604-1626).
UnregisterEnds == op = "polling" ~> op = "idle"
=============================================================================
