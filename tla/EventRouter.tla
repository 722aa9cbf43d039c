---------------------------- MODULE EventRouter ----------------------------
(***************************************************************************)
(* The event router of claw_event_router: tasks publish events into a      *)
(* bounded queue; one router task takes them, matches them against the     *)
(* rules and executes the actions of those that match.  A table beside     *)
(* the queue tracks the events on their way, so that they can be           *)
(* cancelled.                                                              *)
(*                                                                         *)
(* The router holds its recursive mutex while it matches rules and         *)
(* executes their actions; every other critical section is one action of   *)
(* the model, which waits for the mutex.  A capability that an action      *)
(* calls runs in the router task, which has the mutex already: it may      *)
(* cancel, publish, and exchange the rules under the walk.                 *)
(*                                                                         *)
(* The agent core the router submits messages to is the bounded queue in   *)
(* front of it and the task Core, which publishes its answers back into    *)
(* the router.  Stopping the router and the file behind the rules are left *)
(* out.                                                                    *)
(***************************************************************************)
EXTENDS Naturals, Sequences, FiniteSets, FiniteSetsExt

CONSTANTS
  Publishers,   \* chat gateways, capabilities, the console
  Core,         \* the task of the root agent
  Kinds,        \* what the rules tell events apart by
  AnswerKind,   \* the kind of the core's own events
  OwnKinds,     \* kinds whose source is the router itself
  TextKinds,    \* messages that go to the agent by default
  RuleSets,     \* contents the rules file may have
  TableSize,    \* CLAW_EVENT_ROUTER_PENDING_TABLE_SIZE
  QueueLen,     \* config.event_queue_len
  InboxLen,     \* requests the core's queue takes
  Coincident,   \* events published in one millisecond share their id
  MaxEvents,    \* bound: events ever published
  FreedActions  \* bound: actions a freed rule may seem to have

Tasks == Publishers \cup {Core}
Slots == 1..TableSize
Serials == 1..MaxEvents

ActionKinds == {"cap", "agent", "emit", "drop"}

\* One action of a rule; kind is that of the event an "emit" publishes.
RuleActions == [do : ActionKinds, kind : Kinds, failOpen : BOOLEAN]
Rules == [on : SUBSET Kinds, actions : Seq(RuleActions), consume : BOOLEAN]

ASSUME RouterAssumption ==
  /\ Core \notin Publishers
  /\ AnswerKind \in Kinds /\ OwnKinds \subseteq Kinds /\ TextKinds \subseteq Kinds
  /\ RuleSets \subseteq Seq(Rules) /\ RuleSets # {}
  /\ QueueLen \in Nat \ {0} /\ InboxLen \in Nat \ {0} /\ MaxEvents \in Nat
  /\ TableSize \in Nat /\ QueueLen <= TableSize
  /\ Coincident \in BOOLEAN /\ FreedActions \in Nat

\* serial tells events apart in the history; the code knows only their id.
Events == [serial : Serials, id : Serials, kind : Kinds]
Entries == [id : Serials \cup {0}, kind : Kinds, armed : BOOLEAN]

\* A slot that memset has cleared: no event has the id 0.
Free == [id |-> 0, kind |-> AnswerKind, armed |-> FALSE]

VARIABLES
  queue,      \* event_queue
  pending,    \* pending[]
  at,         \* where each task is in claw_event_router_publish
  sends,      \* the event it publishes
  inbox,      \* requests in the core's queue
  rules,      \* rules[]
  pc,         \* where the router task is
  event,      \* the event it has received
  i, j,       \* its rule and action
  matched,    \* local.matched
  walk,       \* "steady", or "freed": the rule at hand has been freed under its
              \* loop; "mixed": the loop has gone on among the new rules
  emits,      \* the event its action publishes
  made,       \* history: events made
  clock,      \* the id of the latest one: its millisecond
  cancelled,  \* history: events a cancel or a purge has armed
  routed,     \* history: events whose routing has begun
  begun,      \* history: the rules when it began
  crossed     \* history: events that were on their way among more than the
              \* table has slots, or beside another of their id

publishVars == <<at, sends, made, clock>>
loopVars == <<event, i, j, matched, walk>>
routeVars == <<pc, loopVars, emits>>
history == <<cancelled, routed, begun, crossed>>
vars == <<queue, pending, inbox, rules, publishVars, routeVars, history>>

NoEvent == [serial |-> 0]

Init ==
  /\ queue = <<>>
  /\ pending = [s \in Slots |-> Free]
  /\ at = [t \in Tasks |-> "idle"] /\ sends = [t \in Tasks |-> NoEvent]
  /\ inbox = 0
  /\ rules \in RuleSets
  /\ pc = "off" /\ event = NoEvent /\ i = 0 /\ j = 0 /\ matched = FALSE /\ emits = NoEvent
  /\ walk = "steady"
  /\ made = 0 /\ clock = 0
  /\ cancelled = {} /\ routed = {} /\ begun = rules /\ crossed = {}

\* The router holds the mutex from the first rule to the last action.
LockFree == pc \notin {"match", "act", "emitting"}

\* The walk executes an action of this kind.  A rule that has been freed reads
\* as whatever the memory holds by then.
Doing(kind) == pc = "act" /\ (walk # "freed" => rules[i].actions[j].do = kind)

\* Events that have been tracked and not been taken.
OnTheWay ==
  {queue[n] : n \in DOMAIN queue}
    \cup {sends[t] : t \in {u \in Tasks : at[u] \in {"sending", "giving up"}}}
    \cup (IF pc = "taken" THEN {event} ELSE {})
    \cup (IF pc = "emitting" THEN {emits} ELSE {})

-----------------------------------------------------------------------------
(* The pending table.                                                       *)

Find(id) == {s \in Slots : pending[s].id = id}

\* Faulty variant: never looks for a free slot.
AllocSlotUsed ==
  LET unarmed == {s \in Slots : ~pending[s].armed}
  IN  IF unarmed # {} THEN Min(unarmed) ELSE Min(Slots)

\* A free slot, else one that is not armed, else the first.
AllocSlot ==
  LET unarmed == {s \in Slots : ~pending[s].armed}
  IN  IF Find(0) # {} THEN Min(Find(0))
      ELSE IF unarmed # {} THEN Min(unarmed) ELSE Min(Slots)

\* The events of these that are too many for the table, or share their id.
Crossing(events) ==
  {e.serial : e \in {x \in events : \/ Cardinality(events) > TableSize
                                   \/ \E y \in events : y # x /\ y.id = x.id}}

Track(e) ==
  LET slot == IF Find(e.id) # {} THEN Min(Find(e.id)) ELSE AllocSlot
  IN  /\ pending' = [pending EXCEPT ![slot] = [id |-> e.id, kind |-> e.kind, armed |-> FALSE]]
      /\ crossed' = crossed \cup Crossing(OnTheWay \cup {e})

Untrack(e) == pending' = [s \in Slots |-> IF pending[s].id = e.id THEN Free ELSE pending[s]]

Armed(e) == \E s \in Find(e.id) : pending[s].armed

-----------------------------------------------------------------------------
(* Publishing: claw_event_router_publish.                                   *)

\* The id is the millisecond at which the event is made.
Make(k, e) ==
  /\ made < MaxEvents
  /\ made' = made + 1
  /\ clock' \in {clock + 1} \cup (IF Coincident /\ clock > 0 THEN {clock} ELSE {})
  /\ e = [serial |-> made + 1, id |-> clock', kind |-> k]

Begin(t, k) ==
  /\ at[t] = "idle"
  /\ \E e \in Events : Make(k, e) /\ sends' = [sends EXCEPT ![t] = e]
  /\ at' = [at EXCEPT ![t] = "tracking"]
  /\ UNCHANGED <<queue, pending, rules, routeVars, history>>

Publish(t, k) == t # Core /\ Begin(t, k) /\ UNCHANGED inbox

\* A turn of the core ends: claw_core_publish_out_message_if_requested.
Answer == inbox > 0 /\ inbox' = inbox - 1 /\ Begin(Core, AnswerKind)

\* A turn ends without an event.
Silent ==
  /\ at[Core] = "idle"
  /\ inbox > 0 /\ inbox' = inbox - 1
  /\ UNCHANGED <<queue, pending, rules, publishVars, routeVars, history>>

TrackSent(t) ==
  /\ at[t] = "tracking" /\ LockFree
  /\ Track(sends[t])
  /\ at' = [at EXCEPT ![t] = "sending"]
  /\ UNCHANGED <<queue, inbox, rules, sends, made, clock, routeVars, cancelled, routed, begun>>

\* Faulty variant: sends without asking for room.
SendOverfull(t) ==
  /\ at[t] = "sending"
  /\ queue' = Append(queue, sends[t])
  /\ at' = [at EXCEPT ![t] = "idle"]
  /\ sends' = [sends EXCEPT ![t] = NoEvent]
  /\ UNCHANGED <<pending, inbox, rules, made, clock, routeVars, history>>

Send(t) ==
  /\ at[t] = "sending" /\ Len(queue) < QueueLen
  /\ queue' = Append(queue, sends[t])
  /\ at' = [at EXCEPT ![t] = "idle"]
  /\ sends' = [sends EXCEPT ![t] = NoEvent]
  /\ UNCHANGED <<pending, inbox, rules, made, clock, routeVars, history>>

\* The queue has been full for a second.
SendTimeout(t) ==
  /\ at[t] = "sending" /\ Len(queue) = QueueLen
  /\ at' = [at EXCEPT ![t] = "giving up"]
  /\ UNCHANGED <<queue, pending, inbox, rules, sends, made, clock, routeVars, history>>

\* Faulty variant: the event that was not sent stays tracked.
GiveUpTracked(t) ==
  /\ at[t] = "giving up" /\ LockFree
  /\ at' = [at EXCEPT ![t] = "idle"]
  /\ sends' = [sends EXCEPT ![t] = NoEvent]
  /\ UNCHANGED <<queue, pending, inbox, rules, made, clock, routeVars, history>>

GiveUp(t) ==
  /\ at[t] = "giving up" /\ LockFree
  /\ Untrack(sends[t])
  /\ at' = [at EXCEPT ![t] = "idle"]
  /\ sends' = [sends EXCEPT ![t] = NoEvent]
  /\ UNCHANGED <<queue, inbox, rules, made, clock, routeVars, history>>

-----------------------------------------------------------------------------
(* Cancelling, purging, reloading: the console and the capabilities.        *)

\* From another task, or from a capability that the walk has called.
Arm(slots) ==
  /\ LockFree \/ Doing("cap")
  /\ pending' = [s \in Slots |-> IF s \in slots THEN [pending[s] EXCEPT !.armed = TRUE]
                                 ELSE pending[s]]
  /\ cancelled' = cancelled \cup
       {e.serial : e \in {x \in OnTheWay : \E s \in slots : pending[s].id = x.id}}
  /\ UNCHANGED <<queue, inbox, rules, publishVars, routeVars, routed, begun, crossed>>

CancelEvent(id) ==
  LET slots == {s \in Find(id) : ~pending[s].armed}
  IN  slots # {} /\ Arm(slots)

\* The filter asks for one kind or for none in particular.
PurgeQueue(filter) ==
  Arm({s \in Slots : pending[s].id # 0 /\ ~pending[s].armed /\ pending[s].kind \in filter})

\* Faulty variant: the rules are exchanged without the mutex.
ReloadUnlocked(r) ==
  /\ rules' = r
  /\ UNCHANGED <<queue, pending, inbox, publishVars, routeVars, history>>

\* A reload, or an edit of the rules, by another task exchanges them.
Reload(r) ==
  /\ LockFree
  /\ rules' = r
  /\ UNCHANGED <<queue, pending, inbox, publishVars, routeVars, history>>

-----------------------------------------------------------------------------
(* Routing: claw_event_router_task and claw_event_router_process_event.     *)

Goto(p) == pc' = p

Start ==
  /\ pc = "off" /\ Goto("receive")
  /\ UNCHANGED <<queue, pending, inbox, rules, publishVars, loopVars, emits, history>>

Receive ==
  /\ pc = "receive" /\ queue # <<>>
  /\ event' = Head(queue) /\ queue' = Tail(queue)
  /\ Goto("taken")
  /\ UNCHANGED <<pending, inbox, rules, publishVars, i, j, matched, walk, emits, history>>

Finish ==
  /\ pc' = "receive" /\ event' = NoEvent /\ i' = 0 /\ j' = 0 /\ matched' = FALSE
  /\ walk' = "steady"

\* Faulty variant: the slot is cleared before its flag is read.
TakeCleared ==
  /\ pc = "taken"
  /\ Untrack(event)
  /\ Goto("ready") /\ UNCHANGED loopVars
  /\ UNCHANGED <<queue, inbox, rules, publishVars, emits, history>>

\* pending_take_for_event_id: a cancelled event is skipped.
Take ==
  /\ pc = "taken"
  /\ Untrack(event)
  /\ IF Armed(event) THEN Finish ELSE Goto("ready") /\ UNCHANGED loopVars
  /\ UNCHANGED <<queue, inbox, rules, publishVars, emits, history>>

\* The router's own events are not routed.
Ignore ==
  /\ pc = "ready" /\ event.kind \in OwnKinds
  /\ Finish
  /\ UNCHANGED <<queue, pending, inbox, rules, publishVars, emits, history>>

Route ==
  /\ pc = "ready" /\ event.kind \notin OwnKinds
  /\ Goto("match") /\ i' = 1
  /\ routed' = routed \cup {event.serial} /\ begun' = rules
  /\ UNCHANGED <<queue, pending, inbox, rules, publishVars, event, j, matched, walk, emits,
                 cancelled, crossed>>

\* The actions of a rule that has matched are through: the next rule follows,
\* unless this one consumes the event.
RuleEnds(consume, as) ==
  IF consume THEN Finish
  ELSE /\ Goto("match") /\ i' = i + 1 /\ j' = 0 /\ matched' = TRUE /\ walk' = as
       /\ UNCHANGED event

RuleDone(rule) == RuleEnds(rule.consume, walk)

MatchRule ==
  /\ pc = "match" /\ i <= Len(rules) /\ event.kind \in rules[i].on
  /\ IF rules[i].actions = <<>> THEN RuleDone(rules[i])
     ELSE Goto("act") /\ j' = 1 /\ matched' = TRUE /\ UNCHANGED <<event, i, walk>>
  /\ UNCHANGED <<queue, pending, inbox, rules, publishVars, emits, history>>

SkipRule ==
  /\ pc = "match" /\ i <= Len(rules) /\ event.kind \notin rules[i].on
  /\ i' = i + 1
  /\ UNCHANGED <<queue, pending, inbox, rules, publishVars, pc, event, j, matched, walk, emits,
                 history>>

\* A message that no rule has matched goes to the agent, without the mutex.
LastRule ==
  /\ pc = "match" /\ i > Len(rules)
  /\ IF ~matched /\ event.kind \in TextKinds
     THEN Goto("default") /\ UNCHANGED loopVars
     ELSE Finish
  /\ UNCHANGED <<queue, pending, inbox, rules, publishVars, emits, history>>

\* The loop over the actions of a rule that has been freed: whether it goes on,
\* and whether the rule consumes the event, is read from memory that is free.
FreedDone ==
  \/ \E consume \in BOOLEAN : RuleEnds(consume, "mixed")
  \/ /\ j < FreedActions
     /\ Goto("act") /\ j' = j + 1 /\ walk' = "freed" /\ UNCHANGED <<event, i, matched>>

\* The loop over the actions goes on after one that succeeded or may fail.
ActionDone(ok) ==
  LET rule == rules[i]
  IN  IF walk = "freed" THEN FreedDone
      ELSE IF (ok \/ rule.actions[j].failOpen) /\ j < Len(rule.actions)
      THEN Goto("act") /\ j' = j + 1 /\ UNCHANGED <<event, i, matched, walk>>
      ELSE RuleDone(rule)

\* claw_cap_call (also of send_message and of scripts), and drop
CallCap ==
  /\ Doing("cap") \/ Doing("drop")
  /\ ActionDone(TRUE)
  /\ UNCHANGED <<queue, pending, inbox, rules, publishVars, emits, history>>

\* The capability exchanges the rules: they are freed under the loops of the
\* walk that has called it.
CallCapEdits(r) ==
  /\ Doing("cap")
  /\ rules' = r
  /\ FreedDone
  /\ UNCHANGED <<queue, pending, inbox, publishVars, emits, history>>

\* claw_agent_mgr_submit_root finds room in the core's queue.
Submit ==
  /\ Doing("agent") /\ inbox < InboxLen
  /\ inbox' = inbox + 1
  /\ ActionDone(TRUE)
  /\ UNCHANGED <<queue, pending, rules, publishVars, emits, history>>

\* Faulty variant: the submission waits for room as long as it takes.
ActionFailsNotAgent ==
  /\ Doing("cap") \/ Doing("emit")
  /\ ActionDone(FALSE)
  /\ UNCHANGED <<queue, pending, inbox, rules, publishVars, emits, history>>

\* The capability fails, the input does not render, or the submission gives
\* up after agent_submit_timeout_ms.
ActionFails ==
  /\ \E kind \in ActionKinds \ {"drop"} : Doing(kind)
  /\ ActionDone(FALSE)
  /\ UNCHANGED <<queue, pending, inbox, rules, publishVars, emits, history>>

\* What the action at hand may publish: an emit the event it names, a capability
\* one of its own.
Emitting(k) ==
  \/ Doing("emit") /\ (walk # "freed" => k = rules[i].actions[j].kind)
  \/ Doing("cap") /\ k \notin OwnKinds

\* It goes into the router's own queue, mutex in hand.
Emit ==
  /\ \E k \in Kinds, e \in Events :
       Emitting(k) /\ Make(k, e) /\ emits' = e /\ Track(e)
  /\ Goto("emitting")
  /\ UNCHANGED <<queue, inbox, rules, at, sends, loopVars, cancelled, routed, begun>>

EmitSends ==
  /\ pc = "emitting" /\ Len(queue) < QueueLen
  /\ queue' = Append(queue, emits) /\ emits' = NoEvent
  /\ ActionDone(TRUE)
  /\ UNCHANGED <<pending, inbox, rules, publishVars, history>>

\* Faulty variant: the event is published with no timeout, which never comes.
EmitWaits == FALSE

\* Nobody but the router takes from the queue: it waits for itself.
EmitTimeout ==
  /\ pc = "emitting" /\ Len(queue) = QueueLen
  /\ Untrack(emits) /\ emits' = NoEvent
  /\ ActionDone(FALSE)
  /\ UNCHANGED <<queue, inbox, rules, publishVars, history>>

\* claw_event_router_run_default_agent
DefaultAgent ==
  /\ pc = "default"
  /\ inbox' \in {inbox} \cup (IF inbox < InboxLen THEN {inbox + 1} ELSE {})
  /\ Finish
  /\ UNCHANGED <<queue, pending, rules, publishVars, emits, history>>

-----------------------------------------------------------------------------
Routing ==
  \/ Start \/ Receive \/ Take \/ Ignore \/ Route
  \/ MatchRule \/ SkipRule \/ LastRule
  \/ CallCap \/ Submit \/ ActionFails \/ Emit \/ EmitSends \/ EmitTimeout
  \/ DefaultAgent
  \/ \E r \in RuleSets : CallCapEdits(r)

Publishing(t) ==
  \/ \E k \in Kinds \ OwnKinds : Publish(t, k)
  \/ TrackSent(t) \/ Send(t) \/ SendTimeout(t) \/ GiveUp(t)

Next ==
  \/ Routing
  \/ \E t \in Tasks : Publishing(t)
  \/ Answer \/ Silent
  \/ \E id \in Serials : CancelEvent(id)
  \/ \E k \in Kinds : PurgeQueue({k})
  \/ PurgeQueue(Kinds)
  \/ \E r \in RuleSets : Reload(r)

\* The router is scheduled, capabilities return and waits end at their
\* timeout; a task that waits for the mutex gets it when it is given back.
Fairness ==
  /\ WF_vars(Routing)
  /\ \A t \in Tasks : /\ SF_vars(TrackSent(t))
                      /\ SF_vars(GiveUp(t))
                      /\ WF_vars(Send(t) \/ SendTimeout(t))

Spec == Init /\ [][Next]_vars /\ Fairness

-----------------------------------------------------------------------------
(* Properties.                                                              *)

TypeOK ==
  /\ queue \in Seq(Events) /\ Len(queue) <= QueueLen
  /\ pending \in [Slots -> Entries]
  /\ at \in [Tasks -> {"idle", "tracking", "sending", "giving up"}]
  /\ sends \in [Tasks -> Events \cup {NoEvent}]
  /\ inbox \in 0..InboxLen
  /\ rules \in RuleSets /\ begun \in RuleSets
  /\ pc \in {"off", "receive", "taken", "ready", "match", "act", "emitting", "default"}
  /\ event \in Events \cup {NoEvent} /\ emits \in Events \cup {NoEvent}
  /\ i \in Nat /\ j \in Nat /\ matched \in BOOLEAN /\ walk \in {"steady", "freed", "mixed"}
  /\ made \in 0..MaxEvents /\ clock \in 0..MaxEvents
  /\ cancelled \subseteq Serials /\ routed \subseteq Serials /\ crossed \subseteq Serials

\* The table holds no slot of an event that is no longer on its way: every
\* path out of the queue, and out of a publish that failed, clears its slot,
\* or the table would fill up for good (claw_event_router.c:343-358, 2515-2520).
NoStaleSlot ==
  \A s \in Slots : pending[s].id # 0 => \E e \in OnTheWay : e.id = pending[s].id

\* An event on its way can be cancelled: its slot is neither evicted nor taken
\* nor cleared for another event.  This holds of every event that was never on
\* its way among more events than the table has slots, nor beside one of the
\* same millisecond, which has the same id; those two cases are exactly the
\* ones in which the code loses the slot (claw_event_router.c:292-358, with the
\* default table as long as the queue, 37-48, and ids of 2024, 2553, 2576).
OnTheWayIsTracked == \A e \in OnTheWay : e.serial \notin crossed => Find(e.id) # {}

\* What claw_event_router.c:47-48 asserts of the table's size: it covers the
\* queue, so an event in the queue is tracked.
TableCoversQueue == \A n \in DOMAIN queue : Find(queue[n].id) # {}

\* An event whose cancellation was acknowledged is not routed, whenever the
\* cancel comes (claw_event_router.c:2453-2463 against 2258-2283).  The same two
\* cases are left out: a slot evicted, or cleared by an event of the same
\* id (313-358), takes the mark with it, and the code routes the event.
CancelledIsNotRouted == cancelled \cap routed \subseteq crossed

\* While an event is routed, nobody but a capability that the walk itself has
\* called exchanges the rules under it: until then they are those it began with,
\* and it reads no rule or action that is not there, but for the one it is at
\* when its capability frees the rules (claw_event_router.c:2136-2247 against
\* 1125-1129 and 2429-2435; the mutex is recursive, 268-276).
RulesStayWhileRouting ==
  pc \in {"match", "act", "emitting"} =>
    /\ walk = "steady" => rules = begun
    /\ pc # "match" /\ walk # "freed" => i \in DOMAIN rules /\ j \in DOMAIN rules[i].actions

Queued(n) == \E m \in DOMAIN queue : queue[m].serial = n

\* An event that was accepted is received in the end, although the router may
\* wait for the core while the core waits for the router
\* (claw_event_router.c:1796, 2517 against claw_core_events.c:173).
AcceptedIsReceived == \A n \in Serials : Queued(n) ~> ~Queued(n)

\* A publish returns: with the event accepted, or at its timeout
\* (claw_event_router.c:2503-2523).
PublishReturns == \A t \in Tasks : at[t] # "idle" ~> at[t] = "idle"

\* Nobody waits for ever for a queue, publisher or event.
NobodyWaits == AcceptedIsReceived /\ PublishReturns
=============================================================================
