------------------------ MODULE EventRouter_proofs ------------------------
(***************************************************************************)
(* The event router keeps its types, leaves no stale slot in the pending   *)
(* table, exchanges the rules under a walk for nobody but the capability   *)
(* the walk has called, keeps track of every event on its way that is      *)
(* neither too many for the table nor has the id of another, and routes no *)
(* such event that was cancelled: for any tasks, rules, table, queue and   *)
(* inbox sizes, whether or not ids coincide.                               *)
(***************************************************************************)
EXTENDS EventRouter, FiniteSetTheorems, FunctionTheorems, WellFoundedInduction, TLAPS

\* Who is past the first step of a publish or a routing carries an event, and
\* the index of a rule is never 0.
Carrying ==
  /\ \A t \in Tasks : at[t] # "idle" => sends[t] \in Events
  /\ pc \notin {"off", "receive"} => event \in Events
  /\ pc = "emitting" => emits \in Events
  /\ pc \in {"match", "act", "emitting"} => i >= 1

IInv == TypeOK /\ Carrying /\ NoStaleSlot /\ RulesStayWhileRouting

-----------------------------------------------------------------------------
(* The pending table.                                                       *)

\* Tracking an event keeps the table's type (claw_event_router.c:313-341).
LEMMA TrackType ==
  ASSUME pending \in [Slots -> Entries], NEW e \in Events, Track(e)
  PROVE  pending' \in [Slots -> Entries]
<1>1. [id |-> e.id, kind |-> e.kind, armed |-> FALSE] \in Entries
  BY DEF Events, Entries
<1>2. QED
  BY <1>1 DEF Track

\* What tracking an event adds to the history are events on their way.
LEMMA TrackCrosses ==
  ASSUME crossed \subseteq Serials, \A x \in OnTheWay : x \in Events, NEW e \in Events, Track(e)
  PROVE  crossed' \subseteq Serials
<1>1. Crossing(OnTheWay \cup {e}) \subseteq {x.serial : x \in OnTheWay \cup {e}}
  BY DEF Crossing
<1>2. QED
  BY <1>1 DEF Track, Events

\* Tracking an event changes no slot but one, which gets the event's id.
LEMMA TrackIds ==
  ASSUME pending \in [Slots -> Entries], NEW e \in Events, Track(e)
  PROVE  \A s \in Slots : pending'[s].id = pending[s].id \/ pending'[s].id = e.id
  BY DEF Track

\* Clearing the slots of an id keeps the type, and leaves the others alone
\* (claw_event_router.c:343-358).
LEMMA UntrackFacts ==
  ASSUME pending \in [Slots -> Entries], NEW e \in Events, Untrack(e)
  PROVE  /\ pending' \in [Slots -> Entries]
         /\ \A s \in Slots : pending'[s].id # e.id
         /\ \A s \in Slots : pending'[s].id # 0 => pending'[s].id = pending[s].id
<1>1. Free \in Entries /\ Free.id = 0
  BY RouterAssumption DEF Free, Entries
<1>2. e.id # 0
  BY DEF Events, Serials
<1>3. QED
  BY <1>1, <1>2 DEF Untrack

\* The table stays clean when each slot keeps its id or belongs to an event on
\* its way, and the events that arrive leave no slot behind.
LEMMA StaysClean ==
  ASSUME NoStaleSlot,
         \A s \in Slots : pending'[s].id # 0 =>
            \/ pending'[s].id = pending[s].id
            \/ \E e \in OnTheWay' : e.id = pending'[s].id,
         \A e \in OnTheWay : e \in OnTheWay' \/ \A s \in Slots : pending'[s].id # e.id
  PROVE  NoStaleSlot'
<1> SUFFICES ASSUME NEW s \in Slots, pending'[s].id # 0
             PROVE  \E e \in OnTheWay' : e.id = pending'[s].id
  BY DEF NoStaleSlot
<1>1. CASE pending'[s].id = pending[s].id
  <2>1. PICK e \in OnTheWay : e.id = pending[s].id
    BY <1>1 DEF NoStaleSlot
  <2>2. e \in OnTheWay'
    BY <1>1, <2>1
  <2>3. QED
    BY <1>1, <2>1, <2>2
<1>2. QED
  BY <1>1

\* What is on its way is an event.
LEMMA WayEvents == IInv => \A e \in OnTheWay : e \in Events
<1> SUFFICES ASSUME IInv PROVE \A e \in OnTheWay : e \in Events
  OBVIOUS
<1>1. queue \in Seq(Events)
  BY DEF IInv, TypeOK
<1>2. \A n \in DOMAIN queue : queue[n] \in Events
  BY <1>1
<1>3. QED
  BY <1>2 DEF OnTheWay, IInv, Carrying

\* The queue after a send (claw_event_router.c:2517).
LEMMA AppendFacts ==
  ASSUME NEW S, NEW q \in Seq(S), NEW e \in S
  PROVE  /\ Append(q, e) \in Seq(S)
         /\ Len(Append(q, e)) = Len(q) + 1
         /\ \A n \in DOMAIN q : n \in DOMAIN Append(q, e) /\ Append(q, e)[n] = q[n]
         /\ Len(q) + 1 \in DOMAIN Append(q, e) /\ Append(q, e)[Len(q) + 1] = e
  OBVIOUS

-----------------------------------------------------------------------------
(* Publishing.                                                              *)

\* Making an event for a task keeps everything.
LEMMA BeginKeeps ==
  ASSUME IInv, NEW t \in Tasks, NEW k \in Kinds, Begin(t, k), inbox' \in 0..InboxLen
  PROVE  IInv'
<1>1. PICK e \in Events : Make(k, e) /\ sends' = [sends EXCEPT ![t] = e]
  BY DEF Begin
<1>2. made' \in 0..MaxEvents /\ clock' \in 0..MaxEvents
  <2>1. e.serial = made' /\ e.id = clock'
    BY <1>1 DEF Make
  <2>2. e.serial \in 1..MaxEvents /\ e.id \in 1..MaxEvents
    BY DEF Events, Serials
  <2>3. QED
    BY <2>1, <2>2, RouterAssumption
<1>3. TypeOK'
  BY <1>1, <1>2 DEF IInv, TypeOK, Begin, routeVars, loopVars, history
<1>4. Carrying'
  BY <1>1 DEF IInv, TypeOK, Carrying, Begin, routeVars, loopVars
<1>5. OnTheWay \subseteq OnTheWay'
  <2>1. \A u \in Tasks : at[u] # "idle" => at'[u] = at[u] /\ sends'[u] = sends[u]
    BY <1>1 DEF Begin, IInv, TypeOK
  <2>2. QED
    BY <2>1 DEF OnTheWay, Begin, routeVars, loopVars
<1>6. NoStaleSlot'
  BY <1>5, StaysClean DEF IInv, Begin
<1>7. RulesStayWhileRouting'
  BY DEF IInv, RulesStayWhileRouting, Begin, routeVars, loopVars, history
<1>8. QED
  BY <1>3, <1>4, <1>6, <1>7 DEF IInv

LEMMA TrackSentKeeps ==
  ASSUME IInv, NEW t \in Tasks, TrackSent(t)
  PROVE  IInv'
<1> DEFINE e == sends[t]
<1>1. e \in Events
  BY DEF IInv, Carrying, TrackSent
<1>2. pending' \in [Slots -> Entries]
  BY <1>1, TrackType DEF TrackSent, IInv, TypeOK
<1>3. TypeOK'
  <2>1. crossed' \subseteq Serials
    BY <1>1, WayEvents, TrackCrosses DEF TrackSent, IInv, TypeOK
  <2>2. QED
    BY <1>2, <2>1 DEF IInv, TypeOK, TrackSent, routeVars, loopVars
<1>4. Carrying'
  BY DEF IInv, TypeOK, Carrying, TrackSent, routeVars, loopVars
<1>5. OnTheWay \subseteq OnTheWay' /\ sends[t] \in OnTheWay'
  BY DEF OnTheWay, TrackSent, IInv, TypeOK, routeVars, loopVars
<1>6. \A s \in Slots : pending'[s].id = pending[s].id \/ pending'[s].id = sends[t].id
  BY <1>1, TrackIds DEF TrackSent, IInv, TypeOK
<1>7. NoStaleSlot'
  BY <1>5, <1>6, StaysClean DEF IInv
<1>8. RulesStayWhileRouting'
  BY DEF IInv, RulesStayWhileRouting, TrackSent, routeVars, loopVars, history
<1>9. QED
  BY <1>3, <1>4, <1>7, <1>8 DEF IInv

LEMMA SendKeeps ==
  ASSUME IInv, NEW t \in Tasks, Send(t)
  PROVE  IInv'
<1>1. sends[t] \in Events
  BY DEF IInv, Carrying, Send
<1>2. /\ queue' \in Seq(Events) /\ Len(queue') <= QueueLen
      /\ \A n \in DOMAIN queue : n \in DOMAIN queue' /\ queue'[n] = queue[n]
      /\ \E n \in DOMAIN queue' : queue'[n] = sends[t]
  <2>1. queue \in Seq(Events) /\ Len(queue) < QueueLen /\ queue' = Append(queue, sends[t])
    BY DEF IInv, TypeOK, Send
  <2>2. QED
    BY <1>1, <2>1, AppendFacts, RouterAssumption
<1>3. TypeOK'
  BY <1>2 DEF IInv, TypeOK, Send, routeVars, loopVars, history
<1>4. Carrying'
  BY DEF IInv, TypeOK, Carrying, Send, routeVars, loopVars
<1>5. \A u \in Tasks \ {t} : at'[u] = at[u] /\ sends'[u] = sends[u]
  BY DEF IInv, TypeOK, Send
<1>6. OnTheWay \subseteq OnTheWay'
  <2> SUFFICES ASSUME NEW e \in OnTheWay PROVE e \in OnTheWay'
    OBVIOUS
  <2>1. CASE \E n \in DOMAIN queue : e = queue[n]
    BY <1>2, <2>1 DEF OnTheWay
  <2>2. CASE \E u \in Tasks : at[u] \in {"sending", "giving up"} /\ e = sends[u]
    BY <1>2, <1>5, <2>2 DEF OnTheWay
  <2>3. QED
    BY <2>1, <2>2 DEF OnTheWay, Send, routeVars, loopVars
<1>7. NoStaleSlot'
  BY <1>6, StaysClean DEF IInv, Send
<1>8. RulesStayWhileRouting'
  BY DEF IInv, RulesStayWhileRouting, Send, routeVars, loopVars, history
<1>9. QED
  BY <1>3, <1>4, <1>7, <1>8 DEF IInv

LEMMA SendTimeoutKeeps ==
  ASSUME IInv, NEW t \in Tasks, SendTimeout(t)
  PROVE  IInv'
<1>1. TypeOK'
  BY DEF IInv, TypeOK, SendTimeout, routeVars, loopVars, history
<1>2. Carrying'
  BY DEF IInv, TypeOK, Carrying, SendTimeout, routeVars, loopVars
<1>3. OnTheWay \subseteq OnTheWay'
  BY DEF OnTheWay, SendTimeout, IInv, TypeOK, routeVars, loopVars
<1>4. NoStaleSlot'
  BY <1>3, StaysClean DEF IInv, SendTimeout
<1>5. RulesStayWhileRouting'
  BY DEF IInv, RulesStayWhileRouting, SendTimeout, routeVars, loopVars, history
<1>6. QED
  BY <1>1, <1>2, <1>4, <1>5 DEF IInv

LEMMA GiveUpKeeps ==
  ASSUME IInv, NEW t \in Tasks, GiveUp(t)
  PROVE  IInv'
<1>1. sends[t] \in Events
  BY DEF IInv, Carrying, GiveUp
<1>2. /\ pending' \in [Slots -> Entries]
      /\ \A s \in Slots : pending'[s].id # sends[t].id
      /\ \A s \in Slots : pending'[s].id # 0 => pending'[s].id = pending[s].id
  BY <1>1, UntrackFacts DEF IInv, TypeOK, GiveUp
<1>3. TypeOK'
  BY <1>2 DEF IInv, TypeOK, GiveUp, routeVars, loopVars, history
<1>4. Carrying'
  BY DEF IInv, TypeOK, Carrying, GiveUp, routeVars, loopVars
<1>5. \A u \in Tasks \ {t} : at'[u] = at[u] /\ sends'[u] = sends[u]
  BY DEF IInv, TypeOK, GiveUp
<1>6. \A e \in OnTheWay : e \in OnTheWay' \/ e = sends[t]
  BY <1>5 DEF OnTheWay, GiveUp, routeVars, loopVars
<1>7. NoStaleSlot'
  BY <1>2, <1>6, StaysClean DEF IInv
<1>8. RulesStayWhileRouting'
  BY DEF IInv, RulesStayWhileRouting, GiveUp, routeVars, loopVars, history
<1>9. QED
  BY <1>3, <1>4, <1>7, <1>8 DEF IInv
-----------------------------------------------------------------------------
(* Cancelling, purging, reloading.                                          *)

LEMMA ArmKeeps ==
  ASSUME IInv, NEW slots, Arm(slots)
  PROVE  IInv'
<1>1. /\ pending' \in [Slots -> Entries]
      /\ \A s \in Slots : pending'[s].id = pending[s].id
  <2>1. \A s \in Slots : /\ pending'[s] \in Entries
                        /\ pending'[s].id = pending[s].id
    BY DEF IInv, TypeOK, Arm, Entries
  <2>2. QED
    BY <2>1 DEF Arm
<1>2. \A e \in OnTheWay : e \in Events
  BY WayEvents
<1>3. cancelled' \subseteq Serials
  BY <1>2 DEF Arm, IInv, TypeOK, Events
<1>4. TypeOK'
  BY <1>1, <1>3 DEF IInv, TypeOK, Arm, routeVars, loopVars, publishVars
<1>5. Carrying'
  BY DEF IInv, Carrying, Arm, routeVars, loopVars, publishVars
<1>6. OnTheWay' = OnTheWay
  BY DEF OnTheWay, Arm, routeVars, loopVars, publishVars
<1>7. NoStaleSlot'
  BY <1>1, <1>6, StaysClean DEF IInv
<1>8. RulesStayWhileRouting'
  BY DEF IInv, RulesStayWhileRouting, Arm, routeVars, loopVars
<1>9. QED
  BY <1>4, <1>5, <1>7, <1>8 DEF IInv

\* The mutex keeps a reload out while an event is routed.
LEMMA ReloadKeeps ==
  ASSUME IInv, NEW r \in RuleSets, Reload(r)
  PROVE  IInv'
<1>1. TypeOK' /\ Carrying'
  BY DEF IInv, TypeOK, Carrying, Reload, routeVars, loopVars, publishVars, history
<1>2. OnTheWay' = OnTheWay
  BY DEF OnTheWay, Reload, routeVars, loopVars, publishVars
<1>3. NoStaleSlot'
  BY <1>2, StaysClean DEF IInv, Reload
<1>4. RulesStayWhileRouting'
  BY DEF RulesStayWhileRouting, Reload, LockFree, routeVars, loopVars
<1>5. QED
  BY <1>1, <1>3, <1>4 DEF IInv

-----------------------------------------------------------------------------
(* Routing.                                                                 *)

\* Where a step of the walk over rules and actions may lead.
Walks ==
  /\ pc' \in {"receive", "match", "act", "default"}
  /\ event' \in Events \cup {NoEvent} /\ (pc' # "receive" => event' \in Events)
  /\ i' \in Nat /\ j' \in Nat /\ matched' \in BOOLEAN
  /\ walk' \in {"steady", "freed", "mixed"}
  /\ pc' \in {"match", "act"} => i' >= 1 /\ (walk' = "steady" => rules' = begun)
  /\ pc' = "act" /\ walk' # "freed" => i' \in DOMAIN rules' /\ j' \in DOMAIN rules'[i'].actions

\* A step of the walk that neither takes nor publishes keeps everything.
LEMMA WalkKeeps ==
  ASSUME IInv, Walks, pc \notin {"taken", "emitting"}, inbox' \in 0..InboxLen, rules' \in RuleSets,
         UNCHANGED <<queue, pending, publishVars, emits, history>>
  PROVE  IInv'
<1>1. TypeOK'
  BY DEF IInv, TypeOK, Walks, publishVars, history
<1>2. Carrying'
  BY DEF IInv, Carrying, Walks, publishVars
<1>3. OnTheWay' = OnTheWay
  BY DEF OnTheWay, Walks, publishVars
<1>4. NoStaleSlot'
  BY <1>3, StaysClean DEF IInv
<1>5. RulesStayWhileRouting'
  BY DEF RulesStayWhileRouting, Walks, history
<1>6. QED
  BY <1>1, <1>2, <1>4, <1>5 DEF IInv

\* The end of a routing is a step of the walk.
LEMMA FinishWalks == Finish => Walks
<1> SUFFICES ASSUME Finish PROVE Walks
  OBVIOUS
<1>1. i' \in Nat /\ j' \in Nat
  BY DEF Finish
<1>2. pc' = "receive" /\ event' = NoEvent /\ matched' \in BOOLEAN /\ walk' = "steady"
  BY DEF Finish
<1>3. pc' # "match" /\ pc' # "act"
  BY <1>2
<1>4. QED
  BY <1>1, <1>2, <1>3 DEF Walks

\* The end of a rule is a step of the walk.
LEMMA RuleEndsWalks ==
  ASSUME IInv, pc \in {"match", "act", "emitting"}, NEW consume, NEW as \in {"steady", "freed", "mixed"},
         as = "steady" => rules' = begun, RuleEnds(consume, as)
  PROVE  Walks
<1>1. CASE consume
  <2>1. Finish
    BY <1>1 DEF RuleEnds
  <2>2. QED
    BY <2>1, FinishWalks
<1>2. CASE ~consume
  <2>1. /\ pc' = "match" /\ i' = i + 1 /\ j' = 0 /\ event' = event
        /\ matched' = TRUE /\ walk' = as
    BY <1>2 DEF RuleEnds, Goto
  <2>2. i \in Nat /\ event \in Events
    BY DEF IInv, TypeOK, Carrying
  <2>3. /\ i' \in Nat /\ i' >= 1 /\ j' \in Nat /\ event' \in Events
        /\ pc' \in {"receive", "match", "act", "default"} /\ pc' # "act"
        /\ matched' \in BOOLEAN /\ walk' \in {"steady", "freed", "mixed"}
        /\ walk' = "steady" => rules' = begun
    <3>1. i' \in Nat /\ i' >= 1 /\ j' \in Nat
      BY <2>1, <2>2
    <3>2. event' \in Events /\ matched' \in BOOLEAN
      BY <2>1, <2>2
    <3>3. walk' \in {"steady", "freed", "mixed"} /\ (walk' = "steady" => rules' = begun)
      BY <2>1
    <3>4. pc' \in {"receive", "match", "act", "default"} /\ pc' # "act"
      BY <2>1
    <3>5. QED
      BY <3>1, <3>2, <3>3, <3>4
  <2>4. QED
    BY <2>3 DEF Walks
<1>3. QED
  BY <1>1, <1>2

LEMMA RuleDoneWalks ==
  ASSUME IInv, pc \in {"match", "act", "emitting"}, UNCHANGED rules, NEW rule, RuleDone(rule)
  PROVE  Walks
<1>1. walk \in {"steady", "freed", "mixed"} /\ (walk = "steady" => rules' = begun)
  BY DEF IInv, TypeOK, RulesStayWhileRouting
<1>2. QED
  BY <1>1, RuleEndsWalks DEF RuleDone

\* Whatever a freed rule reads as, the loop goes on at it or at the next one.
LEMMA FreedDoneWalks ==
  ASSUME IInv, pc \in {"act", "emitting"}, FreedDone
  PROVE  Walks
<1>1. CASE \E consume \in BOOLEAN : RuleEnds(consume, "mixed")
  BY <1>1, RuleEndsWalks
<1>2. CASE j < FreedActions /\ Goto("act") /\ j' = j + 1 /\ walk' = "freed" /\ UNCHANGED <<event, i, matched>>
  <2>1. i \in Nat /\ i >= 1 /\ j \in Nat /\ matched \in BOOLEAN /\ event \in Events
    BY DEF IInv, TypeOK, Carrying
  <2>2. pc' = "act" /\ j' = j + 1 /\ walk' = "freed" /\ event' = event /\ i' = i /\ matched' = matched
    BY <1>2 DEF Goto
  <2>3. QED
    BY <2>1, <2>2 DEF Walks
<1>3. QED
  BY <1>1, <1>2 DEF FreedDone

\* The end of an action is a step of the walk.
LEMMA ActionDoneWalks ==
  ASSUME IInv, pc \in {"act", "emitting"}, UNCHANGED rules, NEW ok, ActionDone(ok)
  PROVE  Walks
<1>1. CASE walk = "freed"
  BY <1>1, FreedDoneWalks DEF ActionDone
<1>2. CASE walk # "freed"
  <2>1. i \in DOMAIN rules /\ j \in DOMAIN rules[i].actions
    BY <1>2 DEF IInv, RulesStayWhileRouting
  <2>2. rules[i].actions \in Seq(RuleActions)
    <3>1. rules \in Seq(Rules)
      BY RouterAssumption DEF IInv, TypeOK
    <3>2. rules[i] \in Rules
      BY <2>1, <3>1
    <3>3. QED
      BY <3>2 DEF Rules
  <2>3. CASE (ok \/ rules[i].actions[j].failOpen) /\ j < Len(rules[i].actions)
    <3>1. j + 1 \in DOMAIN rules[i].actions
      BY <2>1, <2>2, <2>3
    <3>2. /\ pc' = "act" /\ j' = j + 1 /\ i' = i /\ event' = event
          /\ matched' = matched /\ walk' = walk
      BY <1>2, <2>3 DEF ActionDone, Goto
    <3>3. /\ i \in Nat /\ i >= 1 /\ j \in Nat /\ matched \in BOOLEAN
          /\ event \in Events /\ walk \in {"steady", "freed", "mixed"}
          /\ walk = "steady" => rules' = begun
      BY DEF IInv, TypeOK, Carrying, RulesStayWhileRouting
    <3>4. QED
      BY <2>1, <3>1, <3>2, <3>3 DEF Walks
  <2>4. CASE ~((ok \/ rules[i].actions[j].failOpen) /\ j < Len(rules[i].actions))
    BY <1>2, <2>4, RuleDoneWalks DEF ActionDone
  <2>5. QED
    BY <2>3, <2>4
<1>3. QED
  BY <1>1, <1>2

LEMMA StartKeeps == ASSUME IInv, Start PROVE IInv'
<1>1. /\ Walks /\ pc \notin {"taken", "emitting"} /\ inbox' \in 0..InboxLen
      /\ rules' \in RuleSets
  BY DEF Walks, Start, Goto, IInv, TypeOK, loopVars
<1>2. QED
  BY <1>1, WalkKeeps DEF Start

LEMMA ReceiveKeeps == ASSUME IInv, Receive PROVE IInv'
<1>1. /\ queue' \in Seq(Events) /\ Len(queue') <= QueueLen /\ event' \in Events
      /\ \A n \in DOMAIN queue : \/ queue[n] = event'
                               \/ \E m \in DOMAIN queue' : queue'[m] = queue[n]
  <2>1. queue \in Seq(Events) /\ queue # <<>> /\ Len(queue) <= QueueLen
    BY DEF IInv, TypeOK, Receive
  <2>2. queue' = Tail(queue) /\ event' = Head(queue)
    BY DEF Receive
  <2>3. \A n \in DOMAIN queue : n = 1 \/ (n - 1 \in DOMAIN queue' /\ queue'[n - 1] = queue[n])
    BY <2>1, <2>2
  <2>4. queue' \in Seq(Events) /\ Len(queue') <= QueueLen /\ event' \in Events
    BY <2>1, <2>2, RouterAssumption
  <2>5. queue[1] = event'
    BY <2>1, <2>2
  <2>6. QED
    BY <2>3, <2>4, <2>5
<1>2. TypeOK'
  BY <1>1 DEF IInv, TypeOK, Receive, Goto, publishVars, history
<1>3. Carrying'
  BY <1>1 DEF IInv, Carrying, Receive, Goto, publishVars
<1>4. OnTheWay \subseteq OnTheWay'
  <2> SUFFICES ASSUME NEW e \in OnTheWay PROVE e \in OnTheWay'
    OBVIOUS
  <2>1. pc' = "taken" /\ at' = at /\ sends' = sends /\ pc = "receive"
    BY DEF Receive, Goto, publishVars
  <2>2. CASE \E n \in DOMAIN queue : e = queue[n]
    BY <1>1, <2>1, <2>2 DEF OnTheWay
  <2>3. CASE \E u \in Tasks : at[u] \in {"sending", "giving up"} /\ e = sends[u]
    BY <2>1, <2>3 DEF OnTheWay
  <2>4. QED
    BY <2>1, <2>2, <2>3 DEF OnTheWay
<1>5. NoStaleSlot'
  BY <1>4, StaysClean DEF IInv, Receive
<1>6. RulesStayWhileRouting'
  BY DEF RulesStayWhileRouting, Receive, Goto
<1>7. QED
  BY <1>2, <1>3, <1>5, <1>6 DEF IInv

\* The event received leaves the table together with its slot.
LEMMA TakeKeeps == ASSUME IInv, Take PROVE IInv'
<1>1. event \in Events
  BY DEF IInv, Carrying, Take
<1>2. /\ pending' \in [Slots -> Entries]
      /\ \A s \in Slots : pending'[s].id # event.id
      /\ \A s \in Slots : pending'[s].id # 0 => pending'[s].id = pending[s].id
  BY <1>1, UntrackFacts DEF IInv, TypeOK, Take
<1>3. /\ pc' \in {"receive", "ready"} /\ event' \in Events \cup {NoEvent}
      /\ i' \in Nat /\ j' \in Nat
      /\ pc' = "ready" => event' = event
  <2>1. CASE Finish
    BY <2>1 DEF Finish
  <2>2. CASE Goto("ready") /\ UNCHANGED loopVars
    BY <1>1, <2>2 DEF Goto, IInv, TypeOK, loopVars
  <2>3. QED
    BY <2>1, <2>2 DEF Take
<1>4. matched' \in BOOLEAN /\ walk' \in {"steady", "freed", "mixed"}
  BY DEF Take, Finish, IInv, TypeOK, loopVars
<1>5. TypeOK'
  BY <1>2, <1>3, <1>4 DEF IInv, TypeOK, Take, publishVars, history
<1>6. Carrying'
  BY <1>1, <1>3 DEF IInv, Carrying, Take, publishVars
<1>7. \A e \in OnTheWay : e \in OnTheWay' \/ e = event
  BY DEF OnTheWay, Take, publishVars
<1>8. NoStaleSlot'
  BY <1>2, <1>7, StaysClean DEF IInv
<1>9. RulesStayWhileRouting'
  BY <1>3 DEF RulesStayWhileRouting
<1>10. QED
  BY <1>5, <1>6, <1>8, <1>9 DEF IInv

LEMMA RouteKeeps == ASSUME IInv, Route PROVE IInv'
<1>1. routed' \subseteq Serials
  BY DEF IInv, TypeOK, Carrying, Route, Events
<1>2. TypeOK'
  BY <1>1 DEF IInv, TypeOK, Route, Goto, publishVars
<1>3. Carrying'
  BY DEF IInv, Carrying, Route, Goto, publishVars
<1>4. OnTheWay' = OnTheWay
  BY DEF OnTheWay, Route, Goto, publishVars
<1>5. NoStaleSlot'
  BY <1>4, StaysClean DEF IInv, Route
<1>6. RulesStayWhileRouting'
  BY DEF RulesStayWhileRouting, Route, Goto
<1>7. QED
  BY <1>2, <1>3, <1>5, <1>6 DEF IInv

\* The steps of the walk that leave queue and table alone.
LEMMA WalkingKeeps ==
  ASSUME IInv,
         \/ Ignore \/ MatchRule \/ SkipRule \/ LastRule
         \/ CallCap \/ Submit \/ ActionFails \/ DefaultAgent
  PROVE  IInv'
<1>1. inbox \in 0..InboxLen /\ InboxLen \in Nat /\ rules \in RuleSets
  BY RouterAssumption DEF IInv, TypeOK
<1>2. CASE Ignore
  BY <1>1, <1>2, FinishWalks, WalkKeeps DEF Ignore
<1>3. CASE MatchRule
  <2>1. CASE rules[i].actions = <<>>
    BY <1>1, <1>3, <2>1, RuleDoneWalks, WalkKeeps DEF MatchRule
  <2>2. CASE rules[i].actions # <<>>
    <3>1. rules \in Seq(Rules)
      BY RouterAssumption DEF IInv, TypeOK
    <3>2. i \in DOMAIN rules
      <4>1. i \in Nat /\ i >= 1 /\ i <= Len(rules)
        BY <1>3 DEF MatchRule, IInv, TypeOK, Carrying
      <4>2. QED
        BY <3>1, <4>1
    <3>3. 1 \in DOMAIN rules[i].actions
      <4>1. rules[i] \in Rules
        BY <3>1, <3>2
      <4>2. rules[i].actions \in Seq(RuleActions)
        BY <4>1 DEF Rules
      <4>3. QED
        BY <2>2, <4>2
    <3>4. /\ pc' = "act" /\ j' = 1 /\ i' = i /\ event' = event
          /\ matched' = TRUE
      BY <1>3, <2>2 DEF MatchRule, Goto
    <3>5. /\ i \in Nat /\ i >= 1 /\ event \in Events /\ walk \in {"steady", "freed", "mixed"}
          /\ (walk = "steady" => rules = begun) /\ walk' = walk /\ rules' = rules
      BY <1>3, <2>2 DEF IInv, TypeOK, Carrying, RulesStayWhileRouting, MatchRule
    <3>6. Walks
      BY <3>2, <3>3, <3>4, <3>5 DEF Walks
    <3>7. QED
      BY <1>1, <1>3, <3>6, WalkKeeps DEF MatchRule
  <2>3. QED
    BY <2>1, <2>2
<1>4. CASE SkipRule
  <2>1. /\ i \in Nat /\ i >= 1 /\ event \in Events /\ walk \in {"steady", "freed", "mixed"}
        /\ (walk = "steady" => rules = begun) /\ walk' = walk /\ rules' = rules
    BY <1>4 DEF IInv, TypeOK, Carrying, RulesStayWhileRouting, SkipRule
  <2>2. j \in Nat /\ matched \in BOOLEAN
    BY DEF IInv, TypeOK
  <2>3. pc' = "match" /\ i' = i + 1 /\ j' = j /\ event' = event /\ matched' = matched
    BY <1>4 DEF SkipRule
  <2>4. Walks
    BY <2>1, <2>2, <2>3 DEF Walks
  <2>5. QED
    BY <1>1, <1>4, <2>4, WalkKeeps DEF SkipRule
<1>5. CASE LastRule
  <2>1. CASE Finish
    BY <1>1, <1>5, <2>1, FinishWalks, WalkKeeps DEF LastRule
  <2>2. CASE Goto("default") /\ UNCHANGED loopVars
    <3>1. /\ event \in Events /\ i \in Nat /\ j \in Nat /\ matched \in BOOLEAN
          /\ walk \in {"steady", "freed", "mixed"}
      BY <1>5 DEF IInv, TypeOK, Carrying, LastRule
    <3>2. Walks
      BY <2>2, <3>1 DEF Walks, Goto, loopVars
    <3>3. QED
      BY <1>1, <1>5, <3>2, WalkKeeps DEF LastRule
  <2>3. QED
    BY <1>5, <2>1, <2>2 DEF LastRule
<1>6. CASE CallCap
  BY <1>1, <1>6, ActionDoneWalks, WalkKeeps DEF CallCap, Doing
<1>7. CASE Submit
  <2>1. inbox' \in 0..InboxLen
    BY <1>1, <1>7 DEF Submit
  <2>2. QED
    BY <1>1, <1>7, <2>1, ActionDoneWalks, WalkKeeps DEF Submit, Doing
<1>8. CASE ActionFails
  BY <1>1, <1>8, ActionDoneWalks, WalkKeeps DEF ActionFails, Doing
<1>9. CASE DefaultAgent
  <2>1. inbox' \in 0..InboxLen
    BY <1>1, <1>9 DEF DefaultAgent
  <2>2. QED
    BY <1>1, <1>9, <2>1, FinishWalks, WalkKeeps DEF DefaultAgent
<1>10. QED
  BY <1>2, <1>3, <1>4, <1>5, <1>6, <1>7, <1>8, <1>9

\* The rules are freed under the walk that has called the capability.
LEMMA CallCapEditsKeeps ==
  ASSUME IInv, NEW r \in RuleSets, CallCapEdits(r)
  PROVE  IInv'
<1>1. pc = "act" /\ FreedDone /\ rules' \in RuleSets /\ inbox' \in 0..InboxLen
  BY DEF CallCapEdits, Doing, IInv, TypeOK
<1>2. QED
  BY <1>1, FreedDoneWalks, WalkKeeps DEF CallCapEdits

-----------------------------------------------------------------------------
(* Emitting.                                                                *)

LEMMA EmitKeeps == ASSUME IInv, Emit PROVE IInv'
<1>1. PICK k \in Kinds, e \in Events : Emitting(k) /\ Make(k, e) /\ emits' = e /\ Track(e)
  BY DEF Emit
<1>2. made' \in 0..MaxEvents /\ clock' \in 0..MaxEvents
  <2>1. e.serial = made' /\ e.id = clock'
    BY <1>1 DEF Make
  <2>2. e.serial \in 1..MaxEvents /\ e.id \in 1..MaxEvents
    BY DEF Events, Serials
  <2>3. QED
    BY <2>1, <2>2, RouterAssumption
<1>3. /\ pending' \in [Slots -> Entries]
      /\ \A s \in Slots : pending'[s].id = pending[s].id \/ pending'[s].id = e.id
  BY <1>1, TrackType, TrackIds DEF IInv, TypeOK
<1>4. pc = "act" /\ pc' = "emitting"
  BY <1>1 DEF Emit, Emitting, Doing, Goto
<1>5. TypeOK'
  <2>1. crossed' \subseteq Serials
    BY <1>1, WayEvents, TrackCrosses DEF IInv, TypeOK
  <2>2. QED
    BY <1>1, <1>2, <1>3, <1>4, <2>1 DEF IInv, TypeOK, Emit, loopVars
<1>6. Carrying'
  BY <1>1, <1>4 DEF IInv, Carrying, Emit, loopVars
<1>7. OnTheWay \subseteq OnTheWay' /\ e \in OnTheWay'
  BY <1>1, <1>4 DEF OnTheWay, Emit, loopVars
<1>8. NoStaleSlot'
  BY <1>3, <1>7, StaysClean DEF IInv
<1>9. RulesStayWhileRouting'
  BY <1>4 DEF IInv, RulesStayWhileRouting, Emit, loopVars
<1>10. QED
  BY <1>5, <1>6, <1>8, <1>9 DEF IInv

LEMMA EmitSendsKeeps == ASSUME IInv, EmitSends PROVE IInv'
<1>1. emits \in Events /\ pc = "emitting"
  BY DEF IInv, Carrying, EmitSends
<1>2. /\ queue' \in Seq(Events) /\ Len(queue') <= QueueLen
      /\ \A n \in DOMAIN queue : n \in DOMAIN queue' /\ queue'[n] = queue[n]
      /\ \E n \in DOMAIN queue' : queue'[n] = emits
  <2>1. queue \in Seq(Events) /\ Len(queue) < QueueLen /\ queue' = Append(queue, emits)
    BY DEF IInv, TypeOK, EmitSends
  <2>2. QED
    BY <1>1, <2>1, AppendFacts, RouterAssumption
<1>3. Walks
  BY <1>1, ActionDoneWalks DEF EmitSends
<1>4. TypeOK'
  BY <1>2, <1>3 DEF IInv, TypeOK, EmitSends, Walks, publishVars, history
<1>5. Carrying'
  BY <1>3 DEF IInv, Carrying, EmitSends, Walks, publishVars
<1>6. OnTheWay \subseteq OnTheWay'
  <2> SUFFICES ASSUME NEW e \in OnTheWay PROVE e \in OnTheWay'
    OBVIOUS
  <2>1. CASE \E n \in DOMAIN queue : e = queue[n]
    BY <1>2, <2>1 DEF OnTheWay
  <2>2. CASE \E u \in Tasks : at[u] \in {"sending", "giving up"} /\ e = sends[u]
    BY <2>2 DEF OnTheWay, EmitSends, publishVars
  <2>3. CASE e = emits
    BY <1>2, <2>3 DEF OnTheWay
  <2>4. QED
    BY <1>1, <2>1, <2>2, <2>3 DEF OnTheWay
<1>7. NoStaleSlot'
  BY <1>6, StaysClean DEF IInv, EmitSends
<1>8. RulesStayWhileRouting'
  BY <1>3 DEF RulesStayWhileRouting, Walks, EmitSends, history
<1>9. QED
  BY <1>4, <1>5, <1>7, <1>8 DEF IInv

\* The router gives up on its own full queue, and the slot goes with the event.
LEMMA EmitTimeoutKeeps == ASSUME IInv, EmitTimeout PROVE IInv'
<1>1. emits \in Events /\ pc = "emitting"
  BY DEF IInv, Carrying, EmitTimeout
<1>2. /\ pending' \in [Slots -> Entries]
      /\ \A s \in Slots : pending'[s].id # emits.id
      /\ \A s \in Slots : pending'[s].id # 0 => pending'[s].id = pending[s].id
  BY <1>1, UntrackFacts DEF IInv, TypeOK, EmitTimeout
<1>3. Walks
  BY <1>1, ActionDoneWalks DEF EmitTimeout
<1>4. TypeOK'
  BY <1>2, <1>3 DEF IInv, TypeOK, EmitTimeout, Walks, publishVars, history
<1>5. Carrying'
  BY <1>3 DEF IInv, Carrying, EmitTimeout, Walks, publishVars
<1>6. \A e \in OnTheWay : e \in OnTheWay' \/ e = emits
  BY <1>1 DEF OnTheWay, EmitTimeout, publishVars
<1>7. NoStaleSlot'
  BY <1>2, <1>6, StaysClean DEF IInv
<1>8. RulesStayWhileRouting'
  BY <1>3 DEF RulesStayWhileRouting, Walks, EmitTimeout, history
<1>9. QED
  BY <1>4, <1>5, <1>7, <1>8 DEF IInv

-----------------------------------------------------------------------------
(* The invariant and the theorems.                                          *)

LEMMA InitEstablishes == Init => IInv
<1> SUFFICES ASSUME Init PROVE IInv
  OBVIOUS
<1>1. Free \in Entries /\ Free.id = 0
  BY RouterAssumption DEF Free, Entries
<1>2. pending \in [Slots -> Entries] /\ \A s \in Slots : pending[s].id = 0
  BY <1>1 DEF Init
<1>3. queue \in Seq(Events) /\ Len(queue) = 0
  BY DEF Init
<1>4. TypeOK
  <2>1. /\ at \in [Tasks -> {"idle", "tracking", "sending", "giving up"}]
        /\ sends \in [Tasks -> Events \cup {NoEvent}]
        /\ event = NoEvent /\ emits = NoEvent /\ pc = "off"
        /\ rules \in RuleSets /\ begun \in RuleSets
        /\ cancelled = {} /\ routed = {} /\ crossed = {} /\ walk = "steady"
    BY DEF Init
  <2>2. /\ Len(queue) <= QueueLen /\ inbox \in 0..InboxLen
        /\ i \in Nat /\ j \in Nat /\ made \in 0..MaxEvents /\ clock \in 0..MaxEvents
    BY <1>3, RouterAssumption DEF Init
  <2>3. matched \in BOOLEAN
    BY DEF Init
  <2>4. QED
    BY <1>2, <1>3, <2>1, <2>2, <2>3 DEF TypeOK
<1>5. Carrying /\ NoStaleSlot /\ RulesStayWhileRouting
  BY <1>2 DEF Init, Carrying, NoStaleSlot, RulesStayWhileRouting
<1>6. QED
  BY <1>4, <1>5 DEF IInv

LEMMA Stutter == IInv /\ UNCHANGED vars => IInv'
<1> SUFFICES ASSUME IInv, UNCHANGED vars PROVE IInv'
  OBVIOUS
<1> USE DEF vars, publishVars, routeVars, loopVars, history
<1>1. TypeOK' /\ Carrying'
  BY DEF IInv, TypeOK, Carrying
<1>2. OnTheWay' = OnTheWay
  BY DEF OnTheWay
<1>3. NoStaleSlot'
  BY <1>2, StaysClean DEF IInv
<1>4. RulesStayWhileRouting'
  BY DEF IInv, RulesStayWhileRouting
<1>5. QED
  BY <1>1, <1>3, <1>4 DEF IInv

LEMMA NextKeeps == IInv /\ Next => IInv'
<1> SUFFICES ASSUME IInv, Next PROVE IInv'
  OBVIOUS
<1>1. CASE Routing
  BY <1>1, StartKeeps, ReceiveKeeps, TakeKeeps, RouteKeeps, WalkingKeeps, EmitKeeps,
     EmitSendsKeeps, EmitTimeoutKeeps, CallCapEditsKeeps DEF Routing
<1>2. ASSUME NEW t \in Tasks, Publishing(t) PROVE IInv'
  <2>1. ASSUME NEW k \in Kinds \ OwnKinds, Publish(t, k) PROVE IInv'
    BY <2>1, BeginKeeps DEF Publish, IInv, TypeOK
  <2>2. QED
    BY <1>2, <2>1, TrackSentKeeps, SendKeeps, SendTimeoutKeeps, GiveUpKeeps DEF Publishing
<1>3. inbox \in 0..InboxLen /\ InboxLen \in Nat /\ Core \in Tasks /\ AnswerKind \in Kinds
  BY RouterAssumption DEF IInv, TypeOK, Tasks
<1>4. CASE Answer
  <2>1. inbox' \in 0..InboxLen
    BY <1>3, <1>4 DEF Answer
  <2>2. QED
    BY <1>3, <1>4, <2>1, BeginKeeps DEF Answer
<1>5. CASE Silent
  <2>1. inbox' \in 0..InboxLen
    BY <1>3, <1>5 DEF Silent
  <2>2. TypeOK' /\ Carrying'
    BY <1>5, <2>1 DEF IInv, TypeOK, Carrying, Silent, publishVars, routeVars, loopVars, history
  <2>3. OnTheWay' = OnTheWay
    BY <1>5 DEF OnTheWay, Silent, publishVars, routeVars, loopVars
  <2>4. NoStaleSlot'
    BY <1>5, <2>3, StaysClean DEF IInv, Silent
  <2>5. RulesStayWhileRouting'
    BY <1>5 DEF IInv, RulesStayWhileRouting, Silent, routeVars, loopVars, history
  <2>6. QED
    BY <2>2, <2>4, <2>5 DEF IInv
<1>6. ASSUME NEW id \in Serials, CancelEvent(id) PROVE IInv'
  BY <1>6, ArmKeeps DEF CancelEvent
<1>7. ASSUME NEW filter, PurgeQueue(filter) PROVE IInv'
  BY <1>7, ArmKeeps DEF PurgeQueue
<1>8. QED
  BY <1>1, <1>2, <1>4, <1>5, <1>6, <1>7, ReloadKeeps DEF Next

\* Every variable keeps its type: the queue and the core's queue stay within
\* their lengths on every path (claw_event_router.c:2258-2523).
THEOREM TypeCorrect == Spec => []TypeOK
<1>1. Init => IInv
  BY InitEstablishes
<1>2. IInv /\ [Next]_vars => IInv'
  BY NextKeeps, Stutter
<1>3. IInv => TypeOK
  BY DEF IInv
<1>4. QED
  BY <1>1, <1>2, <1>3, PTL DEF Spec

\* A used slot of the pending table is that of an event on its way, even when
\* ids coincide and slots are evicted: no path leaks a slot
\* (claw_event_router.c:292-358, 2503-2523).
THEOREM TableIsClean == Spec => []NoStaleSlot
<1>1. Init => IInv
  BY InitEstablishes
<1>2. IInv /\ [Next]_vars => IInv'
  BY NextKeeps, Stutter
<1>3. IInv => NoStaleSlot
  BY DEF IInv
<1>4. QED
  BY <1>1, <1>2, <1>3, PTL DEF Spec

\* Under the walk over rules and actions nobody but a capability it has called
\* exchanges the rules, and but for the rule at hand by then, the walk reads
\* rules and actions that are there (claw_event_router.c:2129-2247).
THEOREM RulesAreStable == Spec => []RulesStayWhileRouting
<1>1. Init => IInv
  BY InitEstablishes
<1>2. IInv /\ [Next]_vars => IInv'
  BY NextKeeps, Stutter
<1>3. IInv => RulesStayWhileRouting
  BY DEF IInv
<1>4. QED
  BY <1>1, <1>2, <1>3, PTL DEF Spec

-----------------------------------------------------------------------------
(* Every event on its way is tracked: the invariant.                        *)

\* Who has the event with this serial.
Publishes(t, n) == at[t] # "idle" /\ sends[t].serial = n
Routes(n) == pc \notin {"off", "receive"} /\ event.serial = n
Emits(n) == pc = "emitting" /\ emits.serial = n

\* An event is in one place only, and was made.
OnePlace ==
  /\ \A m, n \in DOMAIN queue : queue[m].serial = queue[n].serial => m = n
  /\ \A n \in Serials :
       /\ Queued(n) \/ Routes(n) \/ Emits(n) => n <= made
       /\ Routes(n) => ~Queued(n) /\ ~Emits(n)
       /\ Emits(n) => ~Queued(n)
       /\ \A t \in Tasks : Publishes(t, n) =>
            /\ n <= made /\ ~Queued(n) /\ ~Routes(n) /\ ~Emits(n)
            /\ \A u \in Tasks : Publishes(u, n) => t = u

\* No event has two slots.
OneSlot ==
  \A s, r \in Slots : pending[s].id = pending[r].id /\ pending[s].id # 0 => s = r

\* Events of one id are on their way together only if the history says so.
TwinsAreCrossed ==
  \A e, x \in OnTheWay : e.id = x.id /\ e # x => e.serial \in crossed

\* What was cancelled and is on its way is marked in the table, unless it has
\* crossed others, and what is on its way was not routed.
Marked ==
  \A e \in OnTheWay :
    e.serial \notin routed /\ (e.serial \in cancelled \ crossed => Armed(e))

\* Only what was made is cancelled or routed; what is not on its way yet is
\* neither, nor is what is about to be routed, unless it has crossed others.
NotTold ==
  /\ \A n \in cancelled \cup routed : n <= made
  /\ \A t \in Tasks : at[t] = "tracking" => sends[t].serial \notin cancelled \cup routed
  /\ pc = "ready" => event.serial \notin (cancelled \ crossed) \cup routed
  /\ CancelledIsNotRouted

TableInv == OneSlot /\ OnTheWayIsTracked /\ TwinsAreCrossed /\ Marked
TrackedInv == OnePlace /\ TableInv /\ NotTold

\* What is known of the events in queue and tasks.
LEMMA EventFacts ==
  ASSUME IInv
  PROVE  /\ \A n \in DOMAIN queue : queue[n] \in Events
         /\ \A e \in OnTheWay : e \in Events
         /\ \A e \in Events : e.id \in Serials /\ e.serial \in Serials /\ e.id # 0
         /\ Serials \subseteq Nat /\ made \in Nat
<1>1. queue \in Seq(Events)
  BY DEF IInv, TypeOK
<1>2. \A n \in DOMAIN queue : queue[n] \in Events
  BY <1>1
<1>3. \A e \in OnTheWay : e \in Events
  BY WayEvents
<1>4. Serials \subseteq Nat /\ 0 \notin Serials
  BY RouterAssumption DEF Serials
<1>5. made \in Nat
  <2>1. made \in 0..MaxEvents
    BY DEF IInv, TypeOK
  <2>2. QED
    BY <2>1
<1>6. \A e \in Events : e.id \in Serials /\ e.serial \in Serials /\ e.id # 0
  BY <1>4 DEF Events
<1>7. QED
  BY <1>2, <1>3, <1>4, <1>5, <1>6

\* Where the events on their way are.
LEMMA WayFacts ==
  ASSUME IInv, OnePlace, NEW e \in OnTheWay
  PROVE  /\ e.serial <= made
         /\ \/ Queued(e.serial)
            \/ \E t \in Tasks : at[t] \in {"sending", "giving up"} /\ sends[t] = e /\ Publishes(t, e.serial)
            \/ pc = "taken" /\ event = e /\ Routes(e.serial)
            \/ pc = "emitting" /\ emits = e /\ Emits(e.serial)
<1>1. e \in Events /\ e.serial \in Serials
  BY EventFacts
<1>2. CASE \E n \in DOMAIN queue : e = queue[n]
  BY <1>1, <1>2 DEF OnePlace, Queued
<1>3. CASE \E t \in Tasks : at[t] \in {"sending", "giving up"} /\ e = sends[t]
  <2>1. PICK t \in Tasks : at[t] \in {"sending", "giving up"} /\ e = sends[t]
    BY <1>3
  <2>2. at[t] # "idle" /\ Publishes(t, e.serial)
    BY <2>1 DEF Publishes
  <2>3. QED
    BY <1>1, <2>1, <2>2 DEF OnePlace
<1>4. CASE pc = "taken" /\ e = event
  BY <1>1, <1>4 DEF OnePlace, Routes
<1>5. CASE pc = "emitting" /\ e = emits
  BY <1>1, <1>5 DEF OnePlace, Emits
<1>6. QED
  BY <1>2, <1>3, <1>4, <1>5 DEF OnTheWay

\* Events on their way differ in their serials.
LEMMA OneOnTheWay ==
  ASSUME IInv, OnePlace, NEW e \in OnTheWay, NEW x \in OnTheWay, e.serial = x.serial
  PROVE  e = x
<1> DEFINE n == e.serial
<1>1. n \in Serials /\ \A k \in DOMAIN queue : queue[k] \in Events
  BY EventFacts
<1>2. CASE Queued(n)
  <2>1. /\ ~Routes(n) /\ ~Emits(n) /\ \A t \in Tasks : ~Publishes(t, n)
    BY <1>1, <1>2 DEF OnePlace
  <2>2. \A y \in OnTheWay : y.serial = n => \E k \in DOMAIN queue : y = queue[k]
    BY <2>1 DEF OnTheWay, Routes, Emits, Publishes
  <2>3. QED
    BY <2>2 DEF OnePlace
<1>3. CASE ~Queued(n)
  <2>1. \/ \E t \in Tasks : sends[t] = e /\ Publishes(t, n)
        \/ event = e /\ Routes(n)
        \/ emits = e /\ Emits(n)
    BY <1>3, WayFacts
  <2>2. \/ \E t \in Tasks : sends[t] = x /\ Publishes(t, n)
        \/ event = x /\ Routes(n)
        \/ emits = x /\ Emits(n)
    BY <1>3, WayFacts
  <2> HIDE DEF n
  <2>3. QED
    BY <1>1, <2>1, <2>2 DEF OnePlace
<1>4. QED
  BY <1>2, <1>3

-----------------------------------------------------------------------------
(* The table holds every event on its way.                                  *)

\* Nothing changes for the table when no event comes.
LEMMA TableRests ==
  ASSUME TableInv, OnTheWay' \subseteq OnTheWay, UNCHANGED <<pending, cancelled, routed, crossed>>
  PROVE  TableInv'
<1>1. \A e \in OnTheWay' : Find(e.id)' = Find(e.id) /\ Armed(e)' = Armed(e) /\ e \in OnTheWay
  BY DEF Find, Armed
<1>2. OneSlot'
  BY DEF TableInv, OneSlot
<1>3. OnTheWayIsTracked'
  BY <1>1 DEF TableInv, OnTheWayIsTracked
<1>4. TwinsAreCrossed'
  BY <1>1 DEF TableInv, TwinsAreCrossed
<1>5. Marked'
  BY <1>1 DEF TableInv, Marked
<1>6. QED
  BY <1>2, <1>3, <1>4, <1>5 DEF TableInv

\* Clearing the slot of an event that is on its way no more leaves the others
\* tracked and marked, but for those of its id (claw_event_router.c:343-358).
LEMMA TableUntracks ==
  ASSUME IInv, TableInv, NEW e \in OnTheWay, Untrack(e), OnTheWay' \subseteq OnTheWay \ {e},
         UNCHANGED <<cancelled, routed, crossed>>
  PROVE  TableInv'
<1>1. /\ pending \in [Slots -> Entries] /\ Free.id = 0 /\ e.id # 0
      /\ \A x \in OnTheWay' : x.id # 0 /\ x \in OnTheWay /\ x # e
  BY EventFacts DEF IInv, TypeOK, Free
<1>2. \A s \in Slots : pending'[s] = IF pending[s].id = e.id THEN Free ELSE pending[s]
  BY DEF Untrack
<1>3. ASSUME NEW x \in OnTheWay', x.serial \notin crossed, NEW s \in Find(x.id)
      PROVE  s \in Find(x.id)' /\ pending'[s] = pending[s]
  <2>1. x.id # e.id
    BY <1>1, <1>3 DEF TableInv, TwinsAreCrossed
  <2>2. QED
    BY <1>1, <1>2, <1>3, <2>1 DEF Find
<1>4. OneSlot'
  BY <1>1, <1>2 DEF TableInv, OneSlot
<1>5. OnTheWayIsTracked'
  <2> SUFFICES ASSUME NEW x \in OnTheWay', x.serial \notin crossed PROVE Find(x.id)' # {}
    BY DEF OnTheWayIsTracked
  <2>1. PICK s \in Find(x.id) : TRUE
    BY <1>1 DEF TableInv, OnTheWayIsTracked
  <2>2. QED
    BY <1>3, <2>1
<1>6. TwinsAreCrossed'
  BY <1>1 DEF TableInv, TwinsAreCrossed
<1>7. Marked'
  <2> SUFFICES ASSUME NEW x \in OnTheWay'
               PROVE  x.serial \notin routed /\ (x.serial \in cancelled \ crossed => Armed(x)')
    BY DEF Marked
  <2>1. x.serial \notin routed /\ (x.serial \in cancelled \ crossed => Armed(x))
    BY <1>1 DEF TableInv, Marked
  <2>2. x.serial \notin crossed /\ Armed(x) => Armed(x)'
    BY <1>3 DEF Armed
  <2>3. QED
    BY <2>1, <2>2
<1>8. QED
  BY <1>4, <1>5, <1>6, <1>7 DEF TableInv

\* A set of naturals has a least element.
LEMMA LeastOf == ASSUME NEW T \in SUBSET Nat, T # {} PROVE Min(T) \in T
<1> DEFINE U == {0..x : x \in T}
<1>1. U \subseteq FiniteSubsetsOf(Nat)
  <2>1. \A x \in Nat : IsFiniteSet(0..x) /\ 0..x \subseteq Nat
    BY FS_Interval
  <2>2. QED
    BY <2>1 DEF FiniteSubsetsOf
<1>2. U # {}
  OBVIOUS
<1>3. PICK few \in U : \A other \in U : <<other, few>> \notin StrictSubsetOrdering(Nat)
  <2>1. IsWellFoundedOn(StrictSubsetOrdering(Nat), FiniteSubsetsOf(Nat))
    BY FS_StrictSubsetOrderingWellFounded
  <2> HIDE DEF U
  <2>2. QED
    BY <1>1, <1>2, <2>1, WFMin
<1>4. PICK x \in T : few = 0..x
  BY <1>3
<1>5. ASSUME NEW y \in T, y < x PROVE FALSE
  <2>1. 0..y \in U
    OBVIOUS
  <2>2. 0..y \subseteq 0..x /\ 0..y # 0..x /\ 0..y \in SUBSET Nat /\ 0..x \in SUBSET Nat
    BY <1>5
  <2>3. \A a \in SUBSET Nat, b \in SUBSET Nat :
          a \subseteq b /\ a # b => <<a, b>> \in StrictSubsetOrdering(Nat)
    BY DEF StrictSubsetOrdering
  <2>4. <<0..y, 0..x>> \in StrictSubsetOrdering(Nat)
    BY <2>2, <2>3
  <2>5. QED
    BY <1>3, <1>4, <2>1, <2>4
<1>6. \E z \in T : \A y \in T : z <= y
  BY <1>5
<1>7. QED
  BY <1>6 DEF Min

-----------------------------------------------------------------------------
(* A slot is evicted only when more events are on their way than it has.    *)

LEMMA CountTo == ASSUME NEW n \in Nat PROVE IsFiniteSet(1..n) /\ Cardinality(1..n) = n
<1>1. 1 \in Int /\ n \in Int
  OBVIOUS
<1>2. IsFiniteSet(1..n) /\ Cardinality(1..n) = (IF 1 > n THEN 0 ELSE n - 1 + 1)
  BY ONLY <1>1, FS_Interval
<1>3. QED
  BY <1>2

\* Events on their way are finitely many: each has a serial of its own.
LEMMA FewOnTheWay == ASSUME IInv, OnePlace PROVE IsFiniteSet(OnTheWay)
<1> DEFINE f == [e \in OnTheWay |-> e.serial]
<1>1. \A e \in OnTheWay : e.serial \in Serials
  BY EventFacts
<1>2. f \in [OnTheWay -> Serials]
  BY <1>1
<1>3. \A e, x \in OnTheWay : f[e] = f[x] => e = x
  BY OneOnTheWay
<1> HIDE DEF f
<1>4. f \in Injection(OnTheWay, Serials)
  BY <1>2, <1>3 DEF Injection, IsInjective
<1>5. IsFiniteSet(Serials)
  BY RouterAssumption, CountTo DEF Serials
<1>6. QED
  BY <1>4, <1>5, FS_Injection

\* When no slot is free, a further event is one more than the table has slots.
LEMMA TableIsFull ==
  ASSUME IInv, OnePlace, OneSlot, Find(0) = {}, NEW e, e \notin OnTheWay
  PROVE  Cardinality(OnTheWay \cup {e}) > TableSize
<1> DEFINE holder(s) == CHOOSE x \in OnTheWay : x.id = pending[s].id
           f == [s \in Slots |-> holder(s)]
<1>1. \A s \in Slots : pending[s].id # 0
  BY DEF Find
<1>2. \A s \in Slots : holder(s) \in OnTheWay /\ holder(s).id = pending[s].id
  BY <1>1 DEF IInv, NoStaleSlot
<1> HIDE DEF holder
<1>3. f \in [Slots -> OnTheWay] /\ \A s, r \in Slots : f[s] = f[r] => s = r
  BY <1>1, <1>2 DEF OneSlot
<1> HIDE DEF f
<1>4. f \in Injection(Slots, OnTheWay)
  BY <1>3 DEF Injection, IsInjective
<1>5. IsFiniteSet(OnTheWay)
  BY FewOnTheWay
<1>6. Cardinality(Slots) <= Cardinality(OnTheWay)
  BY <1>4, <1>5, FS_Injection
<1>7. Cardinality(Slots) = TableSize /\ TableSize \in Nat
  BY RouterAssumption, CountTo DEF Slots
<1>8. Cardinality(OnTheWay) \in Nat /\ Cardinality(OnTheWay \cup {e}) = Cardinality(OnTheWay) + 1
  BY <1>5, FS_CardinalityType, FS_AddElement
<1>9. QED
  BY <1>6, <1>7, <1>8

\* A new event that meets none of its id takes a free slot, as long as there is
\* one, and evicts nobody; otherwise the history tells who has crossed whom
\* (claw_event_router.c:292-341).
LEMMA TableTracks ==
  ASSUME IInv, TableInv, OnePlace, NEW e \in Events, Track(e), e \notin OnTheWay,
         OnTheWay' = OnTheWay \cup {e}, e.serial \notin cancelled \cup routed,
         UNCHANGED <<cancelled, routed>>
  PROVE  TableInv'
<1> DEFINE slot == IF Find(e.id) # {} THEN Min(Find(e.id)) ELSE AllocSlot
<1>1. /\ pending' = [pending EXCEPT ![slot] = [id |-> e.id, kind |-> e.kind, armed |-> FALSE]]
      /\ crossed' = crossed \cup Crossing(OnTheWay \cup {e})
  BY DEF Track
<1>2. /\ pending \in [Slots -> Entries] /\ e.id # 0
      /\ \A x \in OnTheWay : x.id # 0 /\ x \in Events
  BY EventFacts DEF IInv, TypeOK
<1>3. \A T \in SUBSET Slots : T # {} => Min(T) \in T
  <2>1. Slots \subseteq Nat
    BY RouterAssumption DEF Slots
  <2>2. QED
    BY <2>1, LeastOf
<1>4. Find(e.id) # {} => slot \in Find(e.id)
  BY <1>3 DEF Find
<1>5. Find(e.id) = {} /\ Find(0) # {} => slot \in Find(0)
  BY <1>3 DEF AllocSlot, Find
<1> HIDE DEF slot
<1>6. \A s \in Slots : pending'[s] = IF s = slot THEN [id |-> e.id, kind |-> e.kind, armed |-> FALSE]
                                    ELSE pending[s]
  BY <1>1, <1>2
<1>7. ASSUME NEW x \in OnTheWay', NEW y \in OnTheWay', x # y, x.id = y.id
      PROVE  x.serial \in crossed'
  BY <1>1, <1>7 DEF Crossing
<1>8. ASSUME Find(e.id) = {}, Find(0) = {}, NEW x \in OnTheWay'
      PROVE  x.serial \in crossed'
  <2>1. Cardinality(OnTheWay \cup {e}) > TableSize
    BY <1>8, TableIsFull DEF TableInv
  <2>2. QED
    BY <1>1, <2>1 DEF Crossing
\* Who has not crossed anybody keeps its slot.
<1>9. ASSUME NEW x \in OnTheWay, x.serial \notin crossed', NEW s \in Find(x.id)
      PROVE  s \in Find(x.id)' /\ pending'[s] = pending[s]
  <2>1. s \in Slots /\ pending[s].id = x.id /\ x.id # 0
    BY <1>2, <1>9 DEF Find
  <2>2. x.id # e.id
    BY <1>7, <1>9
  <2>3. s # slot
    BY <1>4, <1>5, <1>8, <1>9, <2>1, <2>2 DEF Find
  <2>4. QED
    BY <1>6, <2>1, <2>3 DEF Find
<1>10. OneSlot'
  <2> SUFFICES ASSUME NEW s \in Slots, NEW r \in Slots, pending'[s].id = pending'[r].id,
                      pending'[s].id # 0
               PROVE  s = r
    BY DEF OneSlot
  <2>1. \A q \in Slots : pending[q].id = e.id => q = slot
    BY <1>2, <1>4 DEF TableInv, OneSlot, Find
  <2>2. QED
    BY <1>6, <2>1 DEF TableInv, OneSlot
<1>11. OnTheWayIsTracked'
  <2> SUFFICES ASSUME NEW x \in OnTheWay', x.serial \notin crossed' PROVE Find(x.id)' # {}
    BY DEF OnTheWayIsTracked
  <2>1. CASE x = e
    <3>1. slot \in Slots
      BY <1>4, <1>5, <1>8, <2>1 DEF Find
    <3>2. QED
      BY <1>6, <2>1, <3>1 DEF Find
  <2>2. CASE x \in OnTheWay
    <3>1. x.serial \notin crossed
      BY <1>1
    <3>2. PICK s \in Find(x.id) : TRUE
      BY <2>2, <3>1 DEF TableInv, OnTheWayIsTracked
    <3>3. QED
      BY <1>9, <2>2, <3>2
  <2>3. QED
    BY <2>1, <2>2
<1>12. TwinsAreCrossed'
  BY <1>7 DEF TwinsAreCrossed
<1>13. Marked'
  <2> SUFFICES ASSUME NEW x \in OnTheWay'
               PROVE  x.serial \notin routed' /\ (x.serial \in cancelled' \ crossed' => Armed(x)')
    BY DEF Marked
  <2>1. CASE x = e
    BY <2>1
  <2>2. CASE x \in OnTheWay
    <3>1. x.serial \notin routed /\ (x.serial \in cancelled \ crossed => Armed(x))
      BY <2>2 DEF TableInv, Marked
    <3>2. x.serial \notin crossed' /\ Armed(x) => Armed(x)'
      BY <1>9, <2>2 DEF Armed
    <3>3. crossed \subseteq crossed'
      BY <1>1
    <3>4. QED
      BY <3>1, <3>2, <3>3
  <2>3. QED
    BY <2>1, <2>2
<1>14. QED
  BY <1>10, <1>11, <1>12, <1>13 DEF TableInv
-----------------------------------------------------------------------------
(* Publishing keeps every event tracked.                                    *)

\* What a step needs to keep of the places when it moves no event.
LEMMA PlacesRest ==
  ASSUME OnePlace, UNCHANGED <<queue, sends, made, emits>>,
         \A t \in Tasks : at'[t] # "idle" => at[t] # "idle",
         pc' \notin {"off", "receive"} => pc \notin {"off", "receive"} /\ event' = event,
         pc' = "emitting" => pc = "emitting"
  PROVE  OnePlace'
<1>1. \A n \in Serials :
        /\ Queued(n)' <=> Queued(n)
        /\ Routes(n)' => Routes(n)
        /\ Emits(n)' => Emits(n)
        /\ \A t \in Tasks : Publishes(t, n)' => Publishes(t, n)
  BY DEF Queued, Routes, Emits, Publishes
<1>2. QED
  BY <1>1 DEF OnePlace

\* A new event: its serial is that of no other.
LEMMA MadeAnew ==
  ASSUME IInv, OnePlace, NotTold, NEW e \in Events, NEW k, Make(k, e)
  PROVE  /\ made' = made + 1 /\ e.serial = made'
         /\ e.serial \notin cancelled \cup routed
         /\ e \notin OnTheWay
<1>1. made' = made + 1 /\ e.serial = made'
  BY DEF Make
<1>2. made \in Nat /\ ~(made + 1 <= made)
  BY EventFacts
<1>3. e.serial \notin cancelled \cup routed
  BY <1>1, <1>2 DEF NotTold
<1>4. e \notin OnTheWay
  BY <1>1, <1>2, WayFacts
<1>5. QED
  BY <1>1, <1>3, <1>4

LEMMA BeginTracks ==
  ASSUME IInv, TrackedInv, NEW t \in Tasks, NEW k \in Kinds, Begin(t, k)
  PROVE  TrackedInv'
<1>1. PICK e \in Events : Make(k, e) /\ sends' = [sends EXCEPT ![t] = e]
  BY DEF Begin
<1>2. /\ made' = made + 1 /\ e.serial = made'
      /\ e.serial \notin cancelled \cup routed
  BY <1>1, MadeAnew DEF TrackedInv
<1>3. /\ at[t] = "idle" /\ at'[t] = "tracking" /\ sends'[t] = e
      /\ \A u \in Tasks \ {t} : at'[u] = at[u] /\ sends'[u] = sends[u]
      /\ UNCHANGED <<queue, pending, routeVars, history>>
  BY <1>1 DEF Begin, IInv, TypeOK
<1>4. made \in Nat /\ Serials \subseteq Nat
  BY EventFacts
<1>6. OnePlace'
  <2>1. \A n \in Serials :
          /\ Queued(n)' <=> Queued(n)
          /\ Routes(n)' <=> Routes(n)
          /\ Emits(n)' <=> Emits(n)
    BY <1>3 DEF Queued, Routes, Emits, routeVars, loopVars
  <2>2. \A n \in Serials : Publishes(t, n)' => n = made + 1 /\ n <= made'
    BY <1>2, <1>3, <1>4 DEF Publishes
  <2>3. \A n \in Serials, u \in Tasks : Publishes(u, n)' /\ u # t => Publishes(u, n)
    BY <1>3 DEF Publishes
  <2>4. \A n \in Serials : n <= made => n <= made' /\ n # made + 1
    BY <1>2, <1>4
  <2>5. QED
    BY <1>3, <2>1, <2>2, <2>3, <2>4 DEF TrackedInv, OnePlace
<1>7. OnTheWay' \subseteq OnTheWay
  BY <1>3 DEF OnTheWay, routeVars, loopVars
<1>8. TableInv'
  BY <1>3, <1>7, TableRests DEF TrackedInv, history
<1>9. NotTold'
  <2>1. \A n \in cancelled \cup routed : n <= made'
    <3>1. \A n \in cancelled \cup routed : n \in Nat /\ n <= made
      BY <1>4 DEF TrackedInv, NotTold, IInv, TypeOK
    <3>2. QED
      BY <1>2, <1>4, <3>1
  <2>2. \A u \in Tasks : at'[u] = "tracking" => sends'[u].serial \notin cancelled \cup routed
    BY <1>2, <1>3 DEF TrackedInv, NotTold
  <2>3. QED
    BY <1>3, <2>1, <2>2 DEF TrackedInv, NotTold, CancelledIsNotRouted, routeVars, loopVars, history
<1>10. QED
  BY <1>6, <1>8, <1>9 DEF TrackedInv

\* The table has room for the event, and it is not in it yet.
LEMMA TrackSentTracks ==
  ASSUME IInv, TrackedInv, NEW t \in Tasks, TrackSent(t)
  PROVE  TrackedInv'
<1> DEFINE e == sends[t]
<1>1. /\ at[t] = "tracking" /\ at'[t] = "sending" /\ e \in Events /\ e.serial \in Serials
      /\ \A u \in Tasks \ {t} : at'[u] = at[u]
      /\ UNCHANGED <<queue, sends, made, clock, routeVars>>
  BY EventFacts DEF TrackSent, IInv, TypeOK, Carrying
<1>2. OnePlace'
  <2>1. \A u \in Tasks : at'[u] # "idle" => at[u] # "idle"
    BY <1>1
  <2>2. QED
    BY <1>1, <2>1, PlacesRest DEF TrackedInv, routeVars, loopVars
<1>3. Publishes(t, e.serial)
  BY <1>1 DEF Publishes
<1>4. e \notin OnTheWay
  <2>1. /\ ~Queued(e.serial) /\ ~Routes(e.serial) /\ ~Emits(e.serial)
        /\ \A u \in Tasks : Publishes(u, e.serial) => t = u
    BY <1>1, <1>3 DEF TrackedInv, OnePlace
  <2>2. QED
    BY <1>1, <2>1, WayFacts DEF TrackedInv
<1>7. OnTheWay' = OnTheWay \cup {e}
  BY <1>1 DEF OnTheWay, routeVars, loopVars
<1>8. e.serial \notin cancelled \cup routed
  BY <1>1 DEF TrackedInv, NotTold
<1>9. Track(e) /\ UNCHANGED <<cancelled, routed>> /\ crossed \subseteq crossed'
  BY DEF TrackSent, Track
<1> HIDE DEF e
<1>10. TableInv'
  BY <1>1, <1>4, <1>7, <1>8, <1>9, TableTracks DEF TrackedInv
<1>11. NotTold'
  BY <1>1, <1>9 DEF TrackedInv, NotTold, CancelledIsNotRouted, routeVars, loopVars
<1>12. QED
  BY <1>2, <1>10, <1>11 DEF TrackedInv

\* What joins the queue leaves whoever had it.
LEMMA QueueGrows ==
  ASSUME IInv, NEW e \in Events, queue' = Append(queue, e), Len(queue) < QueueLen
  PROVE  /\ \A n \in DOMAIN queue : n \in DOMAIN queue' /\ queue'[n] = queue[n]
         /\ \A n \in DOMAIN queue' :
              \/ n \in DOMAIN queue /\ queue'[n] = queue[n]
              \/ n = Len(queue) + 1 /\ n \notin DOMAIN queue /\ queue'[n] = e
         /\ Len(queue) + 1 \in DOMAIN queue' /\ queue'[Len(queue) + 1] = e
<1>1. queue \in Seq(Events)
  BY DEF IInv, TypeOK
<1>2. QED
  BY <1>1

LEMMA SendTracks ==
  ASSUME IInv, TrackedInv, NEW t \in Tasks, Send(t)
  PROVE  TrackedInv'
<1> DEFINE e == sends[t]
<1>1. /\ at[t] = "sending" /\ at'[t] = "idle" /\ e \in Events /\ e.serial \in Serials
      /\ \A u \in Tasks \ {t} : at'[u] = at[u] /\ sends'[u] = sends[u]
      /\ UNCHANGED <<pending, made, clock, routeVars, history>>
  BY EventFacts DEF Send, IInv, TypeOK, Carrying
<1>2. /\ \A n \in DOMAIN queue : n \in DOMAIN queue' /\ queue'[n] = queue[n]
      /\ \A n \in DOMAIN queue' :
           \/ n \in DOMAIN queue /\ queue'[n] = queue[n]
           \/ n = Len(queue) + 1 /\ n \notin DOMAIN queue /\ queue'[n] = e
      /\ Len(queue) + 1 \in DOMAIN queue' /\ queue'[Len(queue) + 1] = e
  BY <1>1, QueueGrows DEF Send
<1>3. /\ e.serial <= made
      /\ ~Queued(e.serial) /\ ~Routes(e.serial) /\ ~Emits(e.serial)
      /\ \A u \in Tasks : Publishes(u, e.serial) => t = u
  <2>1. Publishes(t, e.serial)
    BY <1>1 DEF Publishes
  <2>2. QED
    BY <1>1, <2>1 DEF TrackedInv, OnePlace
<1>4. OnTheWay' \subseteq OnTheWay
  <2> SUFFICES ASSUME NEW x \in OnTheWay' PROVE x \in OnTheWay
    OBVIOUS
  <2>1. CASE \E n \in DOMAIN queue' : x = queue'[n]
    <3>1. (\E n \in DOMAIN queue : x = queue[n]) \/ x = e
      <4> HIDE DEF e
      <4>1. QED
        BY <1>2, <2>1
    <3>2. QED
      BY <1>1, <3>1 DEF OnTheWay
  <2>2. CASE \E u \in Tasks : at'[u] \in {"sending", "giving up"} /\ x = sends'[u]
    BY <1>1, <2>2 DEF OnTheWay
  <2>3. CASE (pc' = "taken" /\ x = event') \/ (pc' = "emitting" /\ x = emits')
    BY <1>1, <2>3 DEF OnTheWay, routeVars, loopVars
  <2>4. QED
    BY <2>1, <2>2, <2>3 DEF OnTheWay
<1> HIDE DEF e
<1>6. OnePlace'
  <2>1. \A n \in Serials : Queued(n)' <=> Queued(n) \/ n = e.serial
    BY <1>2 DEF Queued
  <2>2. \A n \in Serials : (Routes(n)' <=> Routes(n)) /\ (Emits(n)' <=> Emits(n))
    BY <1>1 DEF Routes, Emits, routeVars, loopVars
  <2>3. \A n \in Serials, u \in Tasks : Publishes(u, n)' => Publishes(u, n) /\ u # t
    BY <1>1 DEF Publishes
  <2>4. \A m, n \in DOMAIN queue' : queue'[m].serial = queue'[n].serial => m = n
    BY <1>2, <1>3 DEF TrackedInv, OnePlace, Queued
  <2>5. QED
    BY <1>1, <1>3, <2>1, <2>2, <2>3, <2>4 DEF TrackedInv, OnePlace
<1>7. TableInv'
  BY <1>1, <1>4, TableRests DEF TrackedInv, history
<1>8. NotTold'
  BY <1>1 DEF TrackedInv, NotTold, CancelledIsNotRouted, routeVars, loopVars, history
<1>9. QED
  BY <1>6, <1>7, <1>8 DEF TrackedInv

LEMMA SendTimeoutTracks ==
  ASSUME IInv, TrackedInv, NEW t \in Tasks, SendTimeout(t)
  PROVE  TrackedInv'
<1>1. /\ at[t] = "sending" /\ at'[t] = "giving up"
      /\ \A u \in Tasks \ {t} : at'[u] = at[u]
      /\ UNCHANGED <<queue, pending, sends, made, clock, routeVars, history>>
  BY DEF SendTimeout, IInv, TypeOK
<1>2. OnePlace'
  <2>1. \A u \in Tasks : at'[u] # "idle" => at[u] # "idle"
    BY <1>1
  <2>2. QED
    BY <1>1, <2>1, PlacesRest DEF TrackedInv, routeVars, loopVars
<1>3. OnTheWay' \subseteq OnTheWay
  BY <1>1 DEF OnTheWay, routeVars, loopVars
<1>4. TableInv'
  BY <1>1, <1>3, TableRests DEF TrackedInv, history
<1>5. NotTold'
  BY <1>1 DEF TrackedInv, NotTold, CancelledIsNotRouted, routeVars, loopVars, history
<1>6. QED
  BY <1>2, <1>4, <1>5 DEF TrackedInv

\* The event that was not sent leaves with its slot.
LEMMA GiveUpTracks ==
  ASSUME IInv, TrackedInv, NEW t \in Tasks, GiveUp(t)
  PROVE  TrackedInv'
<1>0. PICK e \in Events : e = sends[t]
  BY DEF GiveUp, IInv, Carrying
<1>1. /\ at[t] = "giving up" /\ at'[t] = "idle" /\ e \in Events /\ e.serial \in Serials
      /\ \A u \in Tasks \ {t} : at'[u] = at[u] /\ sends'[u] = sends[u]
      /\ Untrack(e)
      /\ UNCHANGED <<queue, made, clock, routeVars, history>>
  BY <1>0, EventFacts DEF GiveUp, IInv, TypeOK, Carrying
<1>2. /\ ~Queued(e.serial) /\ ~Routes(e.serial) /\ ~Emits(e.serial)
      /\ \A u \in Tasks : Publishes(u, e.serial) => t = u
  <2>1. Publishes(t, e.serial)
    BY <1>0, <1>1 DEF Publishes
  <2>2. QED
    BY <1>0, <1>1, <2>1 DEF TrackedInv, OnePlace
<1>3. OnePlace'
  <2>1. \A n \in Serials :
          /\ Queued(n)' <=> Queued(n)
          /\ Routes(n)' <=> Routes(n)
          /\ Emits(n)' <=> Emits(n)
          /\ \A u \in Tasks : Publishes(u, n)' => Publishes(u, n)
    BY <1>1 DEF Queued, Routes, Emits, Publishes, routeVars, loopVars
  <2>2. QED
    BY <1>1, <2>1 DEF TrackedInv, OnePlace
<1>4. OnTheWay' \subseteq OnTheWay
  BY <1>1 DEF OnTheWay, routeVars, loopVars
<1>5. e \in OnTheWay /\ e \notin OnTheWay'
  <2>1. e \in OnTheWay
    BY <1>0, <1>1 DEF OnTheWay
  <2>2. ~Queued(e.serial)' /\ ~Routes(e.serial)' /\ ~Emits(e.serial)'
    BY <1>1, <1>2 DEF Queued, Routes, Emits, routeVars, loopVars
  <2>3. \A u \in Tasks : at'[u] # "idle" => sends'[u].serial # e.serial
    BY <1>1, <1>2 DEF Publishes
  <2>4. \A n \in DOMAIN queue' : queue'[n] # e
    BY <2>2 DEF Queued
  <2>5. (pc' = "taken" => event' # e) /\ (pc' = "emitting" => emits' # e)
    BY <2>2 DEF Routes, Emits
  <2>6. QED
    BY <2>1, <2>3, <2>4, <2>5 DEF OnTheWay
<1>6. TableInv'
  BY <1>1, <1>4, <1>5, TableUntracks DEF TrackedInv, history
<1>7. NotTold'
  BY <1>1 DEF TrackedInv, NotTold, CancelledIsNotRouted, routeVars, loopVars, history
<1>8. QED
  BY <1>3, <1>6, <1>7 DEF TrackedInv
-----------------------------------------------------------------------------
(* Cancelling and routing keep every event tracked.                         *)

\* An acknowledged cancel marks the slots of events on their way, and those
\* were not routed (claw_event_router.c:2453-2463).
LEMMA ArmTracks ==
  ASSUME IInv, TrackedInv, NEW slots \in SUBSET Slots, Arm(slots)
  PROVE  TrackedInv'
<1>1. /\ UNCHANGED <<queue, publishVars, routeVars, routed, crossed>>
      /\ pending' = [s \in Slots |-> IF s \in slots THEN [pending[s] EXCEPT !.armed = TRUE]
                                     ELSE pending[s]]
  BY DEF Arm
<1> DEFINE new == {e.serial : e \in {x \in OnTheWay : \E s \in slots : pending[s].id = x.id}}
<1>2. cancelled' = cancelled \cup new
  BY DEF Arm
<1>3. OnePlace'
  BY <1>1, PlacesRest DEF TrackedInv, routeVars, loopVars, publishVars
<1>4. OnTheWay' = OnTheWay
  BY <1>1 DEF OnTheWay, routeVars, loopVars, publishVars
<1>5. \A s \in Slots : /\ pending'[s].id = pending[s].id
                       /\ pending[s].armed \/ s \in slots => pending'[s].armed
  <2>1. \A s \in Slots : pending[s] \in Entries
    BY DEF IInv, TypeOK
  <2>2. QED
    BY <1>1, <2>1 DEF Entries
<1>6. OneSlot' /\ OnTheWayIsTracked' /\ TwinsAreCrossed'
  <2>1. \A e \in OnTheWay : Find(e.id)' = Find(e.id)
    BY <1>5 DEF Find
  <2>2. QED
    BY <1>1, <1>4, <1>5, <2>1
       DEF TrackedInv, TableInv, OneSlot, OnTheWayIsTracked, TwinsAreCrossed
<1>7. \A n \in new : \E x \in OnTheWay : n = x.serial /\ \E s \in slots : pending[s].id = x.id
  OBVIOUS
<1> HIDE DEF new
<1>8. Marked'
  <2> SUFFICES ASSUME NEW e \in OnTheWay
               PROVE  /\ e.serial \notin routed
                      /\ e.serial \in (cancelled \cup new) \ crossed => Armed(e)'
    BY <1>1, <1>2, <1>4 DEF Marked
  <2>1. e.serial \notin routed /\ (e.serial \in cancelled \ crossed => Armed(e))
    BY DEF TrackedInv, TableInv, Marked
  <2>2. Armed(e) => Armed(e)'
    BY <1>5 DEF Armed, Find
  <2>3. ASSUME e.serial \in new PROVE Armed(e)'
    <3>1. PICK x \in OnTheWay : e.serial = x.serial /\ \E s \in slots : pending[s].id = x.id
      BY <1>7, <2>3
    <3>2. x.id = e.id
      BY <3>1, OneOnTheWay DEF TrackedInv
    <3>3. PICK s \in slots : pending[s].id = e.id
      BY <3>1, <3>2
    <3>4. QED
      BY <1>5, <3>3 DEF Armed, Find
  <2>4. QED
    BY <2>1, <2>2, <2>3
<1>9. NotTold'
  <2>1. \A n \in new : n <= made /\ n \notin routed
    BY <1>7, WayFacts DEF TrackedInv, TableInv, Marked
  <2>2. \A t \in Tasks : at[t] = "tracking" => sends[t].serial \notin new
    <3> SUFFICES ASSUME NEW t \in Tasks, at[t] = "tracking", sends[t].serial \in new PROVE FALSE
      OBVIOUS
    <3>1. PICK x \in OnTheWay : sends[t].serial = x.serial
      BY <1>7
    <3>2. Publishes(t, x.serial) /\ x.serial \in Serials
      BY <3>1, EventFacts DEF Publishes
    <3>3. /\ ~Queued(x.serial) /\ ~Routes(x.serial) /\ ~Emits(x.serial)
          /\ \A u \in Tasks : Publishes(u, x.serial) => t = u
      BY <3>2 DEF TrackedInv, OnePlace
    <3>4. QED
      BY <3>3, WayFacts DEF TrackedInv
  <2>3. pc = "ready" => event.serial \notin new
    <3> SUFFICES ASSUME pc = "ready", event.serial \in new PROVE FALSE
      OBVIOUS
    <3>1. PICK x \in OnTheWay : event.serial = x.serial
      BY <1>7
    <3>2. Routes(x.serial) /\ x.serial \in Serials
      BY <3>1, EventFacts DEF Routes
    <3>3. QED
      BY <3>2, WayFacts DEF TrackedInv, OnePlace
  <2>4. QED
    BY <1>1, <1>2, <2>1, <2>2, <2>3
       DEF TrackedInv, NotTold, CancelledIsNotRouted, routeVars, loopVars, publishVars
<1>10. QED
  BY <1>3, <1>6, <1>8, <1>9 DEF TrackedInv, TableInv

\* A step of the router that moves no event but the one it is done with.
LEMMA CalmTracks ==
  ASSUME IInv, TrackedInv, pc' \in {"receive", "match", "act", "default"},
         pc' # "receive" => event' = event /\ pc \notin {"off", "receive"},
         UNCHANGED <<queue, pending, publishVars, emits, cancelled, routed, crossed>>
  PROVE  TrackedInv'
<1>1. OnePlace'
  BY PlacesRest DEF TrackedInv, publishVars
<1>2. OnTheWay' \subseteq OnTheWay
  BY DEF OnTheWay, publishVars
<1>3. TableInv'
  BY <1>2, TableRests DEF TrackedInv
<1>4. NotTold'
  BY DEF TrackedInv, NotTold, CancelledIsNotRouted, publishVars
<1>5. QED
  BY <1>1, <1>3, <1>4 DEF TrackedInv

\* After an action or a rule the router has the same event, or none.
LEMMA DoneKeepsEvent ==
  ASSUME FreedDone \/ \E ok \in BOOLEAN : ActionDone(ok)
  PROVE  pc' \in {"receive", "match", "act", "default"} /\ (pc' # "receive" => event' = event)
<1>1. ASSUME NEW consume, NEW as, RuleEnds(consume, as)
      PROVE  pc' \in {"receive", "match", "act", "default"} /\ (pc' # "receive" => event' = event)
  BY <1>1 DEF RuleEnds, Finish, Goto
<1>2. QED
  BY <1>1 DEF ActionDone, FreedDone, RuleDone, Goto

LEMMA WalkingTracks ==
  ASSUME IInv, TrackedInv,
         \/ Start \/ Ignore \/ MatchRule \/ SkipRule \/ LastRule
         \/ CallCap \/ Submit \/ ActionFails \/ DefaultAgent
         \/ \E r \in RuleSets : CallCapEdits(r)
  PROVE  TrackedInv'
<1>1. ASSUME NEW rule, RuleDone(rule)
      PROVE  pc' \in {"receive", "match", "act", "default"} /\ (pc' # "receive" => event' = event)
  BY <1>1 DEF RuleDone, RuleEnds, Finish, Goto
<1>2. CASE Start
  BY <1>2, CalmTracks DEF Start, Goto, loopVars, history
<1>3. CASE Ignore
  BY <1>3, CalmTracks DEF Ignore, Finish, history
<1>4. CASE MatchRule
  <2>1. pc' \in {"receive", "match", "act", "default"} /\ (pc' # "receive" => event' = event)
    BY <1>1, <1>4 DEF MatchRule, Goto
  <2>2. QED
    BY <1>4, <2>1, CalmTracks DEF MatchRule, history
<1>5. CASE SkipRule
  BY <1>5, CalmTracks DEF SkipRule, history
<1>6. CASE LastRule
  BY <1>6, CalmTracks DEF LastRule, Finish, Goto, loopVars, history
<1>7. CASE CallCap
  BY <1>7, DoneKeepsEvent, CalmTracks DEF CallCap, Doing, history
<1>8. CASE Submit
  BY <1>8, DoneKeepsEvent, CalmTracks DEF Submit, Doing, history
<1>9. CASE ActionFails
  BY <1>9, DoneKeepsEvent, CalmTracks DEF ActionFails, Doing, history
<1>10. CASE DefaultAgent
  BY <1>10, CalmTracks DEF DefaultAgent, Finish, history
<1>11. CASE \E r \in RuleSets : CallCapEdits(r)
  BY <1>11, DoneKeepsEvent, CalmTracks DEF CallCapEdits, Doing, history
<1>12. QED
  BY <1>2, <1>3, <1>4, <1>5, <1>6, <1>7, <1>8, <1>9, <1>10, <1>11

\* The event taken from the queue is still on its way.
LEMMA ReceiveTracks ==
  ASSUME IInv, TrackedInv, Receive
  PROVE  TrackedInv'
<1>1. /\ pc = "receive" /\ pc' = "taken"
      /\ UNCHANGED <<pending, publishVars, emits, cancelled, routed, crossed>>
  BY DEF Receive, Goto, history
<1>2. /\ 1 \in DOMAIN queue /\ event' = queue[1] /\ event' \in Events
      /\ \A n \in DOMAIN queue' : n + 1 \in DOMAIN queue /\ queue'[n] = queue[n + 1] /\ n \in Nat \ {0}
      /\ \A n \in DOMAIN queue : n \in Nat /\ (n # 1 => n - 1 \in DOMAIN queue' /\ queue'[n - 1] = queue[n])
  <2>1. queue \in Seq(Events) /\ queue # <<>> /\ queue' = Tail(queue) /\ event' = Head(queue)
    BY DEF IInv, TypeOK, Receive
  <2>2. QED
    BY <2>1
<1>3. \A n \in DOMAIN queue' : \E m \in DOMAIN queue : m # 1 /\ queue'[n] = queue[m]
  BY <1>2
<1>4. event'.serial \in Serials /\ event'.serial <= made
  <2>1. event'.serial \in Serials /\ Queued(event'.serial)
    BY <1>2, EventFacts DEF Queued
  <2>2. QED
    BY <1>2, <2>1 DEF TrackedInv, OnePlace
<1>6. OnePlace'
  <2>1. \A n \in Serials : Queued(n)' => Queued(n) /\ n # event'.serial
    <3> SUFFICES ASSUME NEW n \in Serials, Queued(n)' PROVE Queued(n) /\ n # event'.serial
      OBVIOUS
    <3>1. PICK k \in DOMAIN queue' : queue'[k].serial = n
      BY DEF Queued
    <3>2. PICK m \in DOMAIN queue : m # 1 /\ queue'[k] = queue[m]
      BY <1>3
    <3>3. queue[m].serial # queue[1].serial
      BY <1>2, <3>2 DEF TrackedInv, OnePlace
    <3>4. QED
      BY <1>2, <3>1, <3>2, <3>3 DEF Queued
  <2>2. \A n \in Serials : /\ Routes(n)' <=> n = event'.serial
                           /\ Routes(n)' => Queued(n)
                           /\ ~Emits(n)' /\ ~Emits(n)
    BY <1>1, <1>2 DEF Routes, Emits, Queued
  <2>3. \A n \in Serials, u \in Tasks : Publishes(u, n)' <=> Publishes(u, n)
    BY <1>1 DEF Publishes, publishVars
  <2>4. \A m, n \in DOMAIN queue' : queue'[m].serial = queue'[n].serial => m = n
    <3> SUFFICES ASSUME NEW m \in DOMAIN queue', NEW n \in DOMAIN queue',
                        queue'[m].serial = queue'[n].serial
                 PROVE  m = n
      OBVIOUS
    <3>1. m + 1 = n + 1
      BY <1>2 DEF TrackedInv, OnePlace
    <3>2. QED
      BY <1>2, <3>1
  <2>5. made' = made
    BY <1>1 DEF publishVars
  <2>6. QED
    BY <2>1, <2>2, <2>3, <2>4, <2>5 DEF TrackedInv, OnePlace
<1>7. OnTheWay' \subseteq OnTheWay
  <2> SUFFICES ASSUME NEW x \in OnTheWay' PROVE x \in OnTheWay
    OBVIOUS
  <2>1. CASE \E n \in DOMAIN queue' : x = queue'[n]
    BY <1>3, <2>1 DEF OnTheWay
  <2>2. CASE x = event'
    BY <1>2, <2>2 DEF OnTheWay
  <2>3. CASE \E u \in Tasks : at'[u] \in {"sending", "giving up"} /\ x = sends'[u]
    BY <1>1, <2>3 DEF OnTheWay, publishVars
  <2>4. QED
    BY <1>1, <2>1, <2>2, <2>3 DEF OnTheWay
<1>8. TableInv'
  BY <1>1, <1>7, TableRests DEF TrackedInv
<1>9. NotTold'
  BY <1>1 DEF TrackedInv, NotTold, CancelledIsNotRouted, publishVars
<1>10. QED
  BY <1>6, <1>8, <1>9 DEF TrackedInv
\* The event is taken out of the table, and dropped if it is marked
\* (claw_event_router.c:2258-2283).
LEMMA TakeTracks ==
  ASSUME IInv, TrackedInv, Take
  PROVE  TrackedInv'
<1>1. /\ pc = "taken" /\ Untrack(event) /\ event \in OnTheWay
      /\ UNCHANGED <<queue, publishVars, emits, cancelled, routed, crossed>>
  BY DEF Take, history, OnTheWay
<1>2. /\ pc' \in {"receive", "ready"} /\ (pc' = "ready" => event' = event /\ ~Armed(event))
  BY DEF Take, Finish, Goto, loopVars
<1>3. OnePlace'
  BY <1>1, <1>2, PlacesRest DEF TrackedInv, publishVars
<1>4. TableInv'
  <2>1. OnTheWay' \subseteq OnTheWay
    BY <1>1, <1>2 DEF OnTheWay, publishVars
  <2>2. PICK e : e = event
    OBVIOUS
  <2>3. e \in OnTheWay /\ Routes(e.serial) /\ e.serial \in Serials
    BY <1>1, <2>2, EventFacts DEF Routes
  <2>4. e \notin OnTheWay'
    <3>1. /\ ~Queued(e.serial)
          /\ \A u \in Tasks : ~Publishes(u, e.serial)
      BY <2>3 DEF TrackedInv, OnePlace
    <3>2. \A n \in DOMAIN queue' : queue'[n] # e
      BY <1>1, <3>1 DEF Queued
    <3>3. \A u \in Tasks : at'[u] # "idle" => sends'[u] # e
      BY <1>1, <3>1 DEF Publishes, publishVars
    <3>4. QED
      BY <1>2, <3>2, <3>3 DEF OnTheWay
  <2>5. QED
    BY <1>1, <2>1, <2>2, <2>3, <2>4, TableUntracks DEF TrackedInv
<1>5. NotTold'
  <2>1. pc' = "ready" => event'.serial \notin (cancelled \ crossed) \cup routed
    BY <1>1, <1>2 DEF TrackedInv, TableInv, Marked
  <2>2. QED
    BY <1>1, <2>1 DEF TrackedInv, NotTold, CancelledIsNotRouted, publishVars
<1>6. QED
  BY <1>3, <1>4, <1>5 DEF TrackedInv

\* Routing begins with an event that was not cancelled, and no other has its
\* serial.
LEMMA RouteTracks ==
  ASSUME IInv, TrackedInv, Route
  PROVE  TrackedInv'
<1>1. /\ pc = "ready" /\ pc' = "match" /\ event' = event /\ routed' = routed \cup {event.serial}
      /\ event.serial \in Serials
      /\ UNCHANGED <<queue, pending, publishVars, emits, cancelled, crossed>>
  BY EventFacts DEF Route, Goto, IInv, Carrying
<1>2. OnePlace'
  BY <1>1, PlacesRest DEF TrackedInv, publishVars
<1>3. Routes(event.serial)
  BY <1>1 DEF Routes
<1>4. OnTheWay' = OnTheWay
  BY <1>1 DEF OnTheWay, publishVars
<1>5. \A x \in OnTheWay : x.serial # event.serial
  BY <1>1, <1>3, WayFacts DEF TrackedInv, OnePlace
<1>6. TableInv'
  <2>1. OneSlot' /\ OnTheWayIsTracked' /\ TwinsAreCrossed'
    BY <1>1, <1>4
       DEF TrackedInv, TableInv, OneSlot, OnTheWayIsTracked, TwinsAreCrossed, Find
  <2>2. \A e \in OnTheWay : Armed(e)' <=> Armed(e)
    BY <1>1 DEF Armed, Find
  <2>3. Marked'
    BY <1>1, <1>4, <1>5, <2>2 DEF TrackedInv, TableInv, Marked
  <2>4. QED
    BY <2>1, <2>3 DEF TableInv
<1>7. NotTold'
  <2>1. \A n \in cancelled \cup routed' : n <= made
    BY <1>1, <1>3 DEF TrackedInv, NotTold, OnePlace
  <2>2. \A t \in Tasks : at[t] = "tracking" => sends[t].serial # event.serial
    <3>1. \A t \in Tasks : ~Publishes(t, event.serial)
      BY <1>1, <1>3 DEF TrackedInv, OnePlace
    <3>2. QED
      BY <3>1 DEF Publishes
  <2>3. QED
    BY <1>1, <2>1, <2>2 DEF TrackedInv, NotTold, CancelledIsNotRouted, publishVars
<1>8. QED
  BY <1>2, <1>6, <1>7 DEF TrackedInv

-----------------------------------------------------------------------------
(* Emitting keeps every event tracked.                                      *)

LEMMA EmitTracks ==
  ASSUME IInv, TrackedInv, Emit
  PROVE  TrackedInv'
<1>1. PICK k \in Kinds, e \in Events : Emitting(k) /\ Make(k, e) /\ emits' = e /\ Track(e)
  BY DEF Emit
<1>2. /\ made' = made + 1 /\ e.serial = made'
      /\ e.serial \notin cancelled \cup routed /\ e \notin OnTheWay
  BY <1>1, MadeAnew DEF TrackedInv
<1>3. /\ pc = "act" /\ pc' = "emitting" /\ event' = event
      /\ UNCHANGED <<queue, at, sends, cancelled, routed>>
      /\ crossed \subseteq crossed'
  BY <1>1 DEF Emit, Emitting, Doing, Goto, loopVars, Track
<1>4. made \in Nat /\ Serials \subseteq Nat
  BY EventFacts
<1>6. OnePlace'
  <2>1. \A n \in Serials :
          /\ Queued(n)' <=> Queued(n)
          /\ Routes(n)' <=> Routes(n)
          /\ Emits(n)' <=> n = made + 1
          /\ \A u \in Tasks : Publishes(u, n)' <=> Publishes(u, n)
    BY <1>1, <1>2, <1>3 DEF Queued, Routes, Emits, Publishes
  <2>2. \A n \in Serials : n <= made => n <= made' /\ n # made + 1
    BY <1>2, <1>4
  <2>3. made + 1 <= made'
    BY <1>2, <1>4
  <2>4. QED
    BY <1>3, <2>1, <2>2, <2>3 DEF TrackedInv, OnePlace
<1>8. OnTheWay' = OnTheWay \cup {e}
  BY <1>1, <1>3 DEF OnTheWay
<1>9. TableInv'
  BY <1>1, <1>2, <1>3, <1>8, TableTracks DEF TrackedInv
<1>10. NotTold'
  <2>1. \A n \in cancelled \cup routed : n <= made'
    <3>1. \A n \in cancelled \cup routed : n \in Nat /\ n <= made
      BY <1>4 DEF TrackedInv, NotTold, IInv, TypeOK
    <3>2. QED
      BY <1>2, <1>4, <3>1
  <2>2. QED
    BY <1>3, <2>1 DEF TrackedInv, NotTold, CancelledIsNotRouted
<1>11. QED
  BY <1>6, <1>9, <1>10 DEF TrackedInv

LEMMA EmitSendsTracks ==
  ASSUME IInv, TrackedInv, EmitSends
  PROVE  TrackedInv'
<1>0. PICK e \in Events : e = emits /\ e.serial \in Serials
  BY EventFacts DEF EmitSends, IInv, Carrying
<1>1. /\ pc = "emitting" /\ pc' \in {"receive", "match", "act", "default"}
      /\ pc' # "receive" => event' = event
      /\ UNCHANGED <<pending, publishVars, cancelled, routed, crossed>>
  BY DoneKeepsEvent DEF EmitSends, history
<1>2. /\ \A n \in DOMAIN queue : n \in DOMAIN queue' /\ queue'[n] = queue[n]
      /\ \A n \in DOMAIN queue' :
           \/ n \in DOMAIN queue /\ queue'[n] = queue[n]
           \/ n = Len(queue) + 1 /\ n \notin DOMAIN queue /\ queue'[n] = e
      /\ Len(queue) + 1 \in DOMAIN queue' /\ queue'[Len(queue) + 1] = e
  BY <1>0, QueueGrows DEF EmitSends
<1>3. /\ e.serial <= made
      /\ ~Queued(e.serial) /\ ~Routes(e.serial)
      /\ \A u \in Tasks : ~Publishes(u, e.serial)
  <2>1. Emits(e.serial)
    BY <1>0, <1>1 DEF Emits
  <2>2. QED
    BY <1>0, <1>1, <2>1 DEF TrackedInv, OnePlace
<1>4. OnTheWay' \subseteq OnTheWay
  <2> SUFFICES ASSUME NEW x \in OnTheWay' PROVE x \in OnTheWay
    OBVIOUS
  <2>1. CASE \E n \in DOMAIN queue' : x = queue'[n]
    <3>1. (\E n \in DOMAIN queue : x = queue[n]) \/ x = e
      BY <1>2, <2>1
    <3>2. QED
      BY <1>0, <1>1, <3>1 DEF OnTheWay
  <2>2. CASE \E u \in Tasks : at'[u] \in {"sending", "giving up"} /\ x = sends'[u]
    BY <1>1, <2>2 DEF OnTheWay, publishVars
  <2>3. QED
    BY <1>1, <2>1, <2>2 DEF OnTheWay
<1>6. OnePlace'
  <2>1. \A n \in Serials : Queued(n)' <=> Queued(n) \/ n = e.serial
    BY <1>2 DEF Queued
  <2>2. \A n \in Serials : (Routes(n)' => Routes(n)) /\ ~Emits(n)'
    BY <1>1 DEF Routes, Emits
  <2>3. \A n \in Serials, u \in Tasks : Publishes(u, n)' <=> Publishes(u, n)
    BY <1>1 DEF Publishes, publishVars
  <2>4. \A m, n \in DOMAIN queue' : queue'[m].serial = queue'[n].serial => m = n
    BY <1>2, <1>3 DEF TrackedInv, OnePlace, Queued
  <2>5. made' = made
    BY <1>1 DEF publishVars
  <2>6. QED
    BY <1>0, <1>3, <2>1, <2>2, <2>3, <2>4, <2>5 DEF TrackedInv, OnePlace
<1>7. TableInv'
  BY <1>1, <1>4, TableRests DEF TrackedInv
<1>8. NotTold'
  BY <1>1 DEF TrackedInv, NotTold, CancelledIsNotRouted, publishVars
<1>9. QED
  BY <1>6, <1>7, <1>8 DEF TrackedInv

LEMMA EmitTimeoutTracks ==
  ASSUME IInv, TrackedInv, EmitTimeout
  PROVE  TrackedInv'
<1>0. PICK e \in Events : e = emits /\ e.serial \in Serials
  BY EventFacts DEF EmitTimeout, IInv, Carrying
<1>1. /\ pc = "emitting" /\ pc' \in {"receive", "match", "act", "default"}
      /\ pc' # "receive" => event' = event
      /\ Untrack(e)
      /\ UNCHANGED <<queue, publishVars, cancelled, routed, crossed>>
  BY <1>0, DoneKeepsEvent DEF EmitTimeout, history
<1>2. /\ ~Queued(e.serial) /\ ~Routes(e.serial)
      /\ \A u \in Tasks : ~Publishes(u, e.serial)
  <2>1. Emits(e.serial)
    BY <1>0, <1>1 DEF Emits
  <2>2. QED
    BY <1>0, <2>1 DEF TrackedInv, OnePlace
<1>3. OnePlace'
  <2>2. \A n \in Serials :
          /\ Queued(n)' <=> Queued(n)
          /\ Routes(n)' => Routes(n)
          /\ ~Emits(n)'
          /\ \A u \in Tasks : Publishes(u, n)' <=> Publishes(u, n)
    BY <1>1 DEF Queued, Routes, Emits, Publishes, publishVars
  <2>3. QED
    BY <1>1, <2>2 DEF TrackedInv, OnePlace, publishVars
<1>4. OnTheWay' \subseteq OnTheWay
  BY <1>1 DEF OnTheWay, publishVars
<1>5. e \in OnTheWay /\ e \notin OnTheWay'
  <2>1. \A n \in DOMAIN queue' : queue'[n] # e
    BY <1>1, <1>2 DEF Queued
  <2>2. \A u \in Tasks : at'[u] # "idle" => sends'[u] # e
    BY <1>1, <1>2 DEF Publishes, publishVars
  <2>3. QED
    BY <1>0, <1>1, <2>1, <2>2 DEF OnTheWay
<1>6. TableInv'
  BY <1>1, <1>4, <1>5, TableUntracks DEF TrackedInv
<1>7. NotTold'
  BY <1>1 DEF TrackedInv, NotTold, CancelledIsNotRouted, publishVars
<1>8. QED
  BY <1>3, <1>6, <1>7 DEF TrackedInv

-----------------------------------------------------------------------------
(* The invariant and the theorems about tracking.                           *)

LEMMA InitTracks == Init => TrackedInv
<1> SUFFICES ASSUME Init PROVE TrackedInv
  OBVIOUS
<1>1. /\ DOMAIN queue = {} /\ cancelled = {} /\ routed = {} /\ pc = "off"
      /\ \A t \in Tasks : at[t] = "idle"
  BY DEF Init
<1>2. OnTheWay = {} /\ \A n : ~Queued(n) /\ ~Routes(n) /\ ~Emits(n)
  BY <1>1 DEF OnTheWay, Queued, Routes, Emits
<1>3. \A t \in Tasks, n \in Serials : ~Publishes(t, n)
  BY <1>1 DEF Publishes
<1>4. OnePlace
  BY <1>1, <1>2, <1>3 DEF OnePlace
<1>5. \A s \in Slots : pending[s].id = 0
  BY DEF Init, Free
<1>6. TableInv
  BY <1>2, <1>5 DEF TableInv, OneSlot, OnTheWayIsTracked, TwinsAreCrossed, Marked
<1>7. NotTold
  BY <1>1 DEF NotTold, CancelledIsNotRouted
<1>8. QED
  BY <1>4, <1>6, <1>7 DEF TrackedInv

\* A step that leaves events, table and router alone.
LEMMA RestTracks ==
  ASSUME IInv, TrackedInv, UNCHANGED <<queue, pending, publishVars, routeVars, cancelled, routed, crossed>>
  PROVE  TrackedInv'
<1>1. OnePlace'
  BY PlacesRest DEF TrackedInv, publishVars, routeVars, loopVars
<1>2. OnTheWay' \subseteq OnTheWay
  BY DEF OnTheWay, publishVars, routeVars, loopVars
<1>3. TableInv'
  BY <1>2, TableRests DEF TrackedInv
<1>4. NotTold'
  BY DEF TrackedInv, NotTold, CancelledIsNotRouted, publishVars, routeVars, loopVars
<1>5. QED
  BY <1>1, <1>3, <1>4 DEF TrackedInv

LEMMA NextTracks == IInv /\ TrackedInv /\ [Next]_vars => TrackedInv'
<1> SUFFICES ASSUME IInv, TrackedInv, [Next]_vars PROVE TrackedInv'
  OBVIOUS
<1>1. CASE Routing
  BY <1>1, WalkingTracks, ReceiveTracks, TakeTracks, RouteTracks, EmitTracks,
     EmitSendsTracks, EmitTimeoutTracks DEF Routing
<1>2. ASSUME NEW t \in Tasks, Publishing(t) PROVE TrackedInv'
  <2>1. ASSUME NEW k \in Kinds \ OwnKinds, Publish(t, k) PROVE TrackedInv'
    BY <2>1, BeginTracks DEF Publish
  <2>2. QED
    BY <1>2, <2>1, TrackSentTracks, SendTracks, SendTimeoutTracks, GiveUpTracks DEF Publishing
<1>3. CASE Answer
  <2>1. Core \in Tasks /\ AnswerKind \in Kinds /\ Begin(Core, AnswerKind)
    BY <1>3, RouterAssumption DEF Answer, Tasks
  <2>2. QED
    BY <2>1, BeginTracks
<1>4. CASE Silent
  BY <1>4, RestTracks DEF Silent, history
<1>5. ASSUME NEW id \in Serials, CancelEvent(id) PROVE TrackedInv'
  <2>1. {s \in Find(id) : ~pending[s].armed} \in SUBSET Slots
    BY DEF Find
  <2>2. QED
    BY <1>5, <2>1, ArmTracks DEF CancelEvent
<1>6. ASSUME NEW filter, PurgeQueue(filter) PROVE TrackedInv'
  <2>1. {s \in Slots : pending[s].id # 0 /\ ~pending[s].armed /\ pending[s].kind \in filter}
          \in SUBSET Slots
    OBVIOUS
  <2>2. QED
    BY <1>6, <2>1, ArmTracks DEF PurgeQueue
<1>7. ASSUME NEW r \in RuleSets, Reload(r) PROVE TrackedInv'
  BY <1>7, RestTracks DEF Reload, history
<1>8. CASE UNCHANGED vars
  BY <1>8, RestTracks DEF vars, history
<1>9. QED
  BY <1>1, <1>2, <1>3, <1>4, <1>5, <1>6, <1>7, <1>8 DEF Next

\* Every event on its way has its slot, so that it can be cancelled, for any
\* sizes and whether or not ids coincide, unless it was on its way among more
\* events than the table has slots, or beside one of its id: as long as a slot is
\* free none is evicted, and with none free the new event is one too many
\* (claw_event_router.c:292-358).
THEOREM EveryEventIsTracked == Spec => []OnTheWayIsTracked
<1>1. Init => IInv /\ TrackedInv
  BY InitEstablishes, InitTracks
<1>2. IInv /\ TrackedInv /\ [Next]_vars => (IInv /\ TrackedInv)'
  BY NextKeeps, Stutter, NextTracks
<1>3. TrackedInv => OnTheWayIsTracked
  BY DEF TrackedInv, TableInv
<1>4. QED
  BY <1>1, <1>2, <1>3, PTL DEF Spec

\* An event whose cancellation was acknowledged is not routed, whenever the
\* cancel comes, with the same two exceptions: a mark can be evicted, or be
\* cleared with another event's slot, in no other way
\* (claw_event_router.c:2258-2283, 2453-2463).
THEOREM CancelledStaysUnrouted == Spec => []CancelledIsNotRouted
<1>1. Init => IInv /\ TrackedInv
  BY InitEstablishes, InitTracks
<1>2. IInv /\ TrackedInv /\ [Next]_vars => (IInv /\ TrackedInv)'
  BY NextKeeps, Stutter, NextTracks
<1>3. TrackedInv => CancelledIsNotRouted
  BY DEF TrackedInv, NotTold
<1>4. QED
  BY <1>1, <1>2, <1>3, PTL DEF Spec
=============================================================================
