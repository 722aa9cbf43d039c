------------------------ MODULE CapRegistry_proofs ------------------------
(***************************************************************************)
(* Proofs about CapRegistry for any groups, members and finite set of      *)
(* callers.  The argument: a member is callable only while its group is    *)
(* (MembersFollowGroup), its counter is the number of callers executing it *)
(* (CallsCounted), and the group a managing task unloads was draining with *)
(* no call counted (Managing); so no call is left when it is unloaded, and *)
(* none comes in.                                                          *)
(***************************************************************************)
EXTENDS CapRegistry, FiniteSetTheorems, TLAPS

\* What the managing task knows of the group it has in hand.
Managing ==
  /\ op # "idle" => target \in Groups
  /\ op = "polling" => groupState[target] = "draining"
  /\ op = "unloading" => groupState[target] = "unloading"
  /\ op \in {"stopping", "unloading"} => next <= Len(Members[target])
  /\ op = "starting" => next > 0
  /\ \A g \in Groups : groupState[g] = "unloading" => op = "unloading" /\ target = g

IInv ==
  TypeOK /\ MembersFollowGroup /\ CallsCounted /\ NoCallOnUnloaded /\ Managing

\* Every descriptor is a member of one group.
LEMMA GroupOfType == \A c \in Caps : GroupOf(c) \in Groups
  BY RegistryAssumption DEF GroupOf

LEMMA ExecutingFinite == \A c : IsFiniteSet(Executing(c))
  <1> TAKE c
  <1>1. Executing(c) \subseteq Callers
    BY DEF Executing
  <1> QED
    BY <1>1, RegistryAssumption, FS_Subset

\* At the start nothing executes.
LEMMA InitEstablishes == Init => IInv
  <1> SUFFICES ASSUME Init PROVE IInv
    OBVIOUS
  <1> USE RegistryAssumption, GroupOfType DEF Init
  <1>1. TypeOK
    BY DEF TypeOK, States, Ops
  <1>2. MembersFollowGroup
    BY DEF MembersFollowGroup
  <1>3. CallsCounted
    <2> SUFFICES ASSUME NEW c \in Caps PROVE active[c] = Cardinality(Executing(c))
      BY DEF CallsCounted
    <2>1. Executing(c) = {}
      BY DEF Executing
    <2> QED
      BY <2>1, FS_EmptySet
  <1>4. NoCallOnUnloaded
    BY DEF NoCallOnUnloaded
  <1>5. Managing
    BY DEF Managing
  <1> QED
    BY <1>1, <1>2, <1>3, <1>4, <1>5 DEF IInv

\* A change of state of a group to one that is not unloaded disturbs no call.
LEMMA SetStateKeeps ==
  ASSUME IInv, NEW g \in Groups, NEW s \in States, SetState(g, s),
         s \notin {"unloading", "free"} \/ \A k \in Callers : executing[k] # NoCap => GroupOf(executing[k]) # g,
         UNCHANGED callVars
  PROVE  /\ groupState' \in [Groups -> States] /\ capState' \in [Caps -> States]
         /\ MembersFollowGroup' /\ CallsCounted' /\ NoCallOnUnloaded'
  <1> USE RegistryAssumption, GroupOfType DEF IInv, SetState, callVars
  <1>1. groupState' \in [Groups -> States] /\ capState' \in [Caps -> States]
    BY DEF TypeOK
  <1>2. MembersFollowGroup'
    BY DEF MembersFollowGroup, TypeOK, GroupOf
  <1>3. CallsCounted'
    BY DEF CallsCounted, Executing
  <1>4. NoCallOnUnloaded'
    <2> SUFFICES ASSUME NEW k \in Callers, executing[k] # NoCap
                 PROVE  groupState'[GroupOf(executing[k])] \notin {"unloading", "free"}
      BY DEF NoCallOnUnloaded
    <2>1. executing[k] \in Caps
      BY DEF TypeOK
    <2> QED
      BY <2>1 DEF NoCallOnUnloaded, TypeOK
  <1> QED
    BY <1>1, <1>2, <1>3, <1>4

\* Steps that leave the states of the groups and the calls alone.
LEMMA QuietKeeps ==
  ASSUME IInv, UNCHANGED <<groupState, capState, callVars>>
  PROVE  MembersFollowGroup' /\ CallsCounted' /\ NoCallOnUnloaded'
  BY DEF IInv, callVars, MembersFollowGroup, CallsCounted, NoCallOnUnloaded, Executing, GroupOf

\* A group without a counted call is executed by nobody.
LEMMA NoneActiveNoneExecuting ==
  ASSUME IInv, NEW g \in Groups, ~HasActiveCalls(g)
  PROVE  \A k \in Callers : executing[k] # NoCap => GroupOf(executing[k]) # g
  <1> SUFFICES ASSUME NEW k \in Callers, executing[k] # NoCap, GroupOf(executing[k]) = g
               PROVE  FALSE
    OBVIOUS
  <1> DEFINE c == executing[k]
  <1>1. c \in Caps
    BY DEF IInv, TypeOK
  <1>2. active[c] = 0
    BY <1>1 DEF HasActiveCalls, IInv, TypeOK
  <1>3. k \in Executing(c)
    BY DEF Executing
  <1>4. Executing(c) = {}
    BY <1>1, <1>2, ExecutingFinite, FS_EmptySet DEF IInv, CallsCounted
  <1> QED
    BY <1>3, <1>4

-----------------------------------------------------------------------------
(* Every step keeps the invariant.                                          *)

\* What a call and a return do to the callers that execute a capability.
LEMMA ExecutingCall ==
  ASSUME TypeOK, NEW k \in Callers, NEW c \in Caps, executing[k] = NoCap,
         executing' = [executing EXCEPT ![k] = c]
  PROVE  /\ k \notin Executing(c)
         /\ Executing(c)' = Executing(c) \cup {k}
         /\ \A b \in Caps : b # c => Executing(b)' = Executing(b)
  <1>1. c # NoCap /\ NoCap \notin Caps
    BY RegistryAssumption
  <1>2. \A j \in Callers : executing'[j] = IF j = k THEN c ELSE executing[j]
    BY DEF TypeOK
  <1> QED
    BY <1>1, <1>2 DEF Executing

LEMMA ExecutingReturn ==
  ASSUME TypeOK, NEW k \in Callers, NEW c \in Caps, executing[k] = c,
         executing' = [executing EXCEPT ![k] = NoCap]
  PROVE  /\ k \in Executing(c)
         /\ Executing(c)' = Executing(c) \ {k}
         /\ \A b \in Caps : b # c => Executing(b)' = Executing(b)
  <1>1. NoCap \notin Caps
    BY RegistryAssumption
  <1>2. \A j \in Callers : executing'[j] = IF j = k THEN NoCap ELSE executing[j]
    BY DEF TypeOK
  <1> QED
    BY <1>1, <1>2 DEF Executing

LEMMA CallKeeps ==
  ASSUME IInv, NEW k \in Callers, NEW c \in Caps, Call(k, c)
  PROVE  IInv'
  <1> USE RegistryAssumption, GroupOfType DEF IInv, Call, opVars
  <1>1. TypeOK'
    BY DEF TypeOK
  <1>2. MembersFollowGroup'
    BY DEF MembersFollowGroup
  <1>3. CallsCounted'
    <2> SUFFICES ASSUME NEW b \in Caps PROVE active'[b] = Cardinality(Executing(b)')
      BY DEF CallsCounted
    <2>1. CASE b = c
      <3>1. Executing(c)' = Executing(c) \cup {k} /\ k \notin Executing(c)
        BY ExecutingCall
      <3>2. Cardinality(Executing(c)') = Cardinality(Executing(c)) + 1
        BY <3>1, ExecutingFinite, FS_AddElement
      <3> QED
        BY <2>1, <3>2 DEF CallsCounted, TypeOK
    <2>2. CASE b # c
      <3>1. Executing(b)' = Executing(b)
        BY <2>2, ExecutingCall
      <3> QED
        BY <2>2, <3>1 DEF CallsCounted, TypeOK
    <2> QED
      BY <2>1, <2>2
  <1>4. NoCallOnUnloaded'
    <2> SUFFICES ASSUME NEW j \in Callers, executing'[j] # NoCap
                 PROVE  groupState[GroupOf(executing'[j])] \notin {"unloading", "free"}
      BY DEF NoCallOnUnloaded
    <2>1. CASE j = k
      BY <2>1 DEF TypeOK, MembersFollowGroup
    <2>2. CASE j # k
      BY <2>2 DEF TypeOK, NoCallOnUnloaded
    <2> QED
      BY <2>1, <2>2
  <1>5. Managing'
    BY DEF Managing
  <1> QED
    BY <1>1, <1>2, <1>3, <1>4, <1>5

LEMMA ReturnKeeps ==
  ASSUME IInv, NEW k \in Callers, Return(k)
  PROVE  IInv'
  <1>0. executing[k] \in Caps
    BY DEF IInv, Return, TypeOK
  <1> SUFFICES ASSUME NEW c \in Caps, executing[k] = c
               PROVE  IInv'
    BY <1>0
  <1> USE RegistryAssumption, GroupOfType DEF IInv, Return, opVars
  <1>1. c \in Caps /\ k \in Executing(c)
    BY ExecutingReturn
  <1>2. active[c] \in Nat /\ active[c] > 0
    <2>1. Executing(c) # {}
      BY <1>1
    <2> QED
      BY <1>1, <2>1, ExecutingFinite, FS_EmptySet DEF CallsCounted, TypeOK
  <1>3. capState[c] # "free"
    BY <1>1 DEF MembersFollowGroup, NoCallOnUnloaded
  <1>4. active' = [active EXCEPT ![c] = @ - 1]
    BY <1>2, <1>3
  <1>5. TypeOK'
    BY <1>1, <1>2, <1>4 DEF TypeOK
  <1>6. MembersFollowGroup'
    BY DEF MembersFollowGroup
  <1>7. CallsCounted'
    <2> SUFFICES ASSUME NEW b \in Caps PROVE active'[b] = Cardinality(Executing(b)')
      BY DEF CallsCounted
    <2>1. CASE b = c
      <3>1. Executing(c)' = Executing(c) \ {k}
        BY ExecutingReturn
      <3>2. Cardinality(Executing(c)') = Cardinality(Executing(c)) - 1
        BY <1>1, <3>1, ExecutingFinite, FS_RemoveElement
      <3> QED
        BY <1>1, <1>4, <2>1, <3>2 DEF CallsCounted, TypeOK
    <2>2. CASE b # c
      <3>1. Executing(b)' = Executing(b)
        BY <2>2, ExecutingReturn
      <3> QED
        BY <1>4, <2>2, <3>1 DEF CallsCounted, TypeOK
    <2> QED
      BY <2>1, <2>2
  <1>8. NoCallOnUnloaded'
    <2> SUFFICES ASSUME NEW j \in Callers, executing'[j] # NoCap
                 PROVE  groupState[GroupOf(executing'[j])] \notin {"unloading", "free"}
      BY DEF NoCallOnUnloaded
    <2>1. j # k /\ executing'[j] = executing[j]
      BY DEF TypeOK
    <2> QED
      BY <2>1 DEF NoCallOnUnloaded
  <1>9. Managing'
    BY DEF Managing
  <1> QED
    BY <1>5, <1>6, <1>7, <1>8, <1>9

\* A group that is opened, closed or drained keeps its calls.
LEMMA OpenKeeps ==
  ASSUME IInv, NEW g \in Groups, Open(g), toBoot' \in {toBoot, toBoot \ {g}}
  PROVE  IInv'
  <1> USE RegistryAssumption, GroupOfType
  <1>1. MembersFollowGroup' /\ CallsCounted' /\ NoCallOnUnloaded'
          /\ groupState' \in [Groups -> States] /\ capState' \in [Caps -> States]
    BY SetStateKeeps DEF Open, States
  <1>2. TypeOK'
    BY <1>1 DEF IInv, TypeOK, Open, Begin, Ops, callVars
  <1>3. Managing'
    BY DEF IInv, TypeOK, Managing, Open, Begin, SetState
  <1> QED
    BY <1>1, <1>2, <1>3 DEF IInv

LEMMA DisableKeeps ==
  ASSUME IInv, NEW g \in Groups, DisableGroup(g)
  PROVE  IInv'
  <1> USE RegistryAssumption, GroupOfType
  <1>1. MembersFollowGroup' /\ CallsCounted' /\ NoCallOnUnloaded'
          /\ groupState' \in [Groups -> States] /\ capState' \in [Caps -> States]
    BY SetStateKeeps DEF DisableGroup, States
  <1>2. TypeOK'
    BY <1>1 DEF IInv, TypeOK, DisableGroup, Begin, Ops, callVars
  <1>3. Managing'
    BY DEF IInv, TypeOK, Managing, DisableGroup, Begin, SetState
  <1> QED
    BY <1>1, <1>2, <1>3 DEF IInv

LEMMA UnregisterKeeps ==
  ASSUME IInv, NEW g \in Groups, UnregisterGroup(g)
  PROVE  IInv'
  <1> USE RegistryAssumption, GroupOfType
  <1>1. MembersFollowGroup' /\ CallsCounted' /\ NoCallOnUnloaded'
          /\ groupState' \in [Groups -> States] /\ capState' \in [Caps -> States]
    BY SetStateKeeps DEF UnregisterGroup, States
  <1>2. TypeOK'
    BY <1>1 DEF IInv, TypeOK, UnregisterGroup, Begin, Ops, callVars
  <1>3. Managing'
    BY DEF IInv, TypeOK, Managing, UnregisterGroup, Begin, SetState
  <1> QED
    BY <1>1, <1>2, <1>3 DEF IInv

LEMMA UndoKeeps ==
  ASSUME IInv, UndoEnable
  PROVE  IInv'
  <1> USE RegistryAssumption, GroupOfType
  <1>0. target \in Groups
    BY DEF IInv, Managing, UndoEnable
  <1>1. MembersFollowGroup' /\ CallsCounted' /\ NoCallOnUnloaded'
          /\ groupState' \in [Groups -> States] /\ capState' \in [Caps -> States]
    BY <1>0, SetStateKeeps DEF UndoEnable, States
  <1>2. TypeOK'
    BY <1>1 DEF IInv, TypeOK, UndoEnable, Done, Ops, callVars
  <1>3. Managing'
    BY <1>0 DEF IInv, TypeOK, Managing, UndoEnable, Done, SetState
  <1> QED
    BY <1>1, <1>2, <1>3 DEF IInv

\* The group that is unloaded has no call left.
LEMMA UnloadKeeps ==
  ASSUME IInv, Unload
  PROVE  IInv'
  <1> USE RegistryAssumption, GroupOfType
  <1>0. target \in Groups /\ op = "polling"
    BY DEF IInv, Managing, Unload
  <1>1. \A k \in Callers : executing[k] # NoCap => GroupOf(executing[k]) # target
    BY <1>0, NoneActiveNoneExecuting DEF Unload
  <1>2. MembersFollowGroup' /\ CallsCounted' /\ NoCallOnUnloaded'
          /\ groupState' \in [Groups -> States] /\ capState' \in [Caps -> States]
    BY <1>0, <1>1, SetStateKeeps DEF Unload, States
  <1>3. TypeOK'
    BY <1>0, <1>2 DEF IInv, TypeOK, Unload, Begin, Ops, callVars
  <1>4. Managing'
    BY <1>0 DEF IInv, TypeOK, Managing, Unload, Begin, SetState
  <1> QED
    BY <1>2, <1>3, <1>4 DEF IInv

\* Clearing the slots of a group forgets counters that are zero.
LEMMA ClearKeeps ==
  ASSUME IInv, Clear
  PROVE  IInv'
  <1> USE RegistryAssumption, GroupOfType
  <1>0. target \in Groups /\ op = "unloading" /\ groupState[target] = "unloading"
    BY DEF IInv, Managing, Clear
  <1>1. \A k \in Callers : executing[k] # NoCap => GroupOf(executing[k]) # target
    BY <1>0 DEF IInv, NoCallOnUnloaded
  <1>2. \A c \in Caps : GroupOf(c) = target => active[c] = 0
    <2> SUFFICES ASSUME NEW c \in Caps, GroupOf(c) = target PROVE active[c] = 0
      OBVIOUS
    <2>1. Executing(c) = {}
      BY <1>1 DEF Executing, IInv, TypeOK
    <2> QED
      BY <2>1, FS_EmptySet DEF IInv, CallsCounted
  <1>3. UNCHANGED callVars
    BY <1>2 DEF Clear, callVars, IInv, TypeOK
  <1>4. MembersFollowGroup' /\ CallsCounted' /\ NoCallOnUnloaded'
          /\ groupState' \in [Groups -> States] /\ capState' \in [Caps -> States]
    BY <1>0, <1>1, <1>3, SetStateKeeps DEF Clear, States
  <1>5. TypeOK'
    BY <1>0, <1>3, <1>4 DEF IInv, TypeOK, Clear, Done, Ops, callVars
  <1>6. Managing'
    BY <1>0 DEF IInv, TypeOK, Managing, Clear, Done, SetState
  <1> QED
    BY <1>4, <1>5, <1>6 DEF IInv

LEMMA StepKeeps == IInv /\ [Next]_vars => IInv'
  <1> SUFFICES ASSUME IInv, [Next]_vars PROVE IInv'
    OBVIOUS
  <1> USE RegistryAssumption, GroupOfType
  <1>1. ASSUME NEW g \in Groups, BootGroup(g) \/ EnableGroup(g) PROVE IInv'
    BY <1>1, OpenKeeps DEF BootGroup, EnableGroup
  <1>2. ASSUME NEW g \in Groups, DisableGroup(g) \/ UnregisterGroup(g) PROVE IInv'
    BY <1>2, DisableKeeps, UnregisterKeeps
  <1>3. CASE UndoEnable
    BY <1>3, UndoKeeps
  <1>4. CASE Unload
    BY <1>4, UnloadKeeps
  <1>5. CASE Clear
    BY <1>5, ClearKeeps
  <1>6. ASSUME NEW k \in Callers, Caller(k) PROVE IInv'
    BY <1>6, CallKeeps, ReturnKeeps DEF Caller
  <1>7. CASE StartFails \/ StartMember \/ StartDone \/ PollTimeout \/ StopMember
             \/ DisableDone \/ UNCHANGED vars
    <2>1. UNCHANGED <<groupState, capState, callVars>>
      BY <1>7 DEF StartFails, StartMember, StartDone, PollTimeout, StopMember,
                  DisableDone, vars
    <2>2. MembersFollowGroup' /\ CallsCounted' /\ NoCallOnUnloaded'
      BY <2>1, QuietKeeps
    <2>3. TypeOK'
      <3>1. CASE StartMember
        <4>1. next \in Nat /\ next <= Len(Members[target]) /\ target \in Groups /\ next > 0
          BY <3>1 DEF IInv, TypeOK, Managing, StartMember
        <4>2. Members[target][next] \in Caps
          BY <4>1
        <4>3. inited' \in [Caps -> BOOLEAN] /\ running' \subseteq Caps
          BY <3>1, <4>2 DEF IInv, TypeOK, StartMember
        <4>4. next' \in Nat /\ op' \in Ops
          BY <3>1, <4>1 DEF Ops, StartMember
        <4>5. UNCHANGED <<groupState, capState, active, executing, toBoot, target>>
          BY <3>1 DEF StartMember, callVars
        <4> QED
          BY <4>3, <4>4, <4>5 DEF IInv, TypeOK
      <3>2. CASE StopMember
        <4>1. next' \in Nat
          BY <3>2 DEF IInv, TypeOK, StopMember
        <4>2. running' \subseteq Caps
          BY <3>2 DEF IInv, TypeOK, StopMember
        <4>3. UNCHANGED <<groupState, capState, inited, active, executing, toBoot, op, target>>
          BY <3>2 DEF StopMember, callVars
        <4> QED
          BY <4>1, <4>2, <4>3 DEF IInv, TypeOK
      <3>3. CASE StartFails \/ StartDone \/ PollTimeout \/ DisableDone \/ UNCHANGED vars
        BY <3>3 DEF IInv, TypeOK, Ops, StartFails, StartDone, PollTimeout, DisableDone,
                    Done, callVars, opVars, vars
      <3> QED
        BY <1>7, <3>1, <3>2, <3>3
    <2>4. Managing'
      <3>1. CASE StartMember
        BY <3>1, <2>1 DEF IInv, TypeOK, Managing, StartMember
      <3>2. CASE StopMember
        BY <3>2, <2>1 DEF IInv, TypeOK, Managing, StopMember
      <3>3. CASE StartFails \/ StartDone \/ PollTimeout \/ DisableDone \/ UNCHANGED vars
        BY <3>3, <2>1 DEF IInv, TypeOK, Managing, StartFails, StartDone, PollTimeout,
                    DisableDone, Done, opVars, vars
      <3> QED
        BY <1>7, <3>1, <3>2, <3>3
    <2> QED
      BY <2>2, <2>3, <2>4 DEF IInv
  <1> QED
    BY <1>1, <1>2, <1>3, <1>4, <1>5, <1>6, <1>7 DEF Next, Manager

-----------------------------------------------------------------------------
(* A group that is open has been started, but for the one in hand.          *)

Up(c) == inited[c] /\ c \in running

GroupUp(g) == \A i \in DOMAIN Members[g] : Up(Members[g][i])

\* The members before the next one are up while a group is started, and a group
\* whose members are being stopped is open no more.
OpenInv ==
  /\ \A g \in Groups : groupState[g] = "started" =>
       GroupUp(g) \/ (op \in {"starting", "failed"} /\ target = g)
  /\ op = "starting" => \A i \in DOMAIN Members[target] : i < next => Up(Members[target][i])
  /\ op = "stopping" => groupState[target] = "disabled"

LEMMA GroupOfMember ==
  \A g \in Groups : \A i \in DOMAIN Members[g] :
    Members[g][i] \in Caps /\ GroupOf(Members[g][i]) = g
  <1> SUFFICES ASSUME NEW g \in Groups, NEW i \in DOMAIN Members[g]
               PROVE  Members[g][i] \in Caps /\ GroupOf(Members[g][i]) = g
    OBVIOUS
  <1>1. \A h \in Groups : (\E j \in DOMAIN Members[h] : Members[h][j] = Members[g][i]) <=> h = g
    BY RegistryAssumption
  <1> QED
    BY <1>1, RegistryAssumption DEF GroupOf

LEMMA MemberIndex == \A g \in Groups : DOMAIN Members[g] = 1..Len(Members[g]) /\ Len(Members[g]) \in Nat
  BY RegistryAssumption

LEMMA UpStays == UNCHANGED <<inited, running>> => \A c : Up(c)' <=> Up(c)
  BY DEF Up

LEMMA OpenStep == IInv /\ OpenInv /\ [Next]_vars => OpenInv'
  <1> SUFFICES ASSUME IInv, OpenInv, [Next]_vars PROVE OpenInv'
    OBVIOUS
  <1> USE GroupOfMember, MemberIndex
  <1>1. ASSUME NEW g \in Groups, Open(g) PROVE OpenInv'
    <2>1. op = "idle" /\ op' = "starting" /\ target' = g /\ next' = 1
            /\ UNCHANGED <<inited, running>>
            /\ \A h \in Groups : h # g => groupState'[h] = groupState[h]
      BY <1>1 DEF Open, Begin, SetState, IInv, TypeOK
    <2> QED
      BY <2>1, UpStays DEF OpenInv, GroupUp
  <1>2. ASSUME NEW g \in Groups, DisableGroup(g) \/ UnregisterGroup(g) PROVE OpenInv'
    <2>1. /\ op = "idle" /\ op' \in {"stopping", "polling"} /\ target' = g
          /\ UNCHANGED <<inited, running>>
          /\ \A h \in Groups : h # g => groupState'[h] = groupState[h]
          /\ groupState'[g] \in {"disabled", "draining"}
          /\ op' = "stopping" => groupState'[g] = "disabled"
      BY <1>2 DEF DisableGroup, UnregisterGroup, Begin, SetState, IInv, TypeOK
    <2> QED
      BY <2>1, UpStays DEF OpenInv, GroupUp
  <1>3. CASE StartFails \/ PollTimeout \/ DisableDone
    <2>1. /\ UNCHANGED <<inited, running, groupState>>
          /\ \/ op = "starting" /\ op' = "failed" /\ target' = target
             \/ op \in {"polling", "stopping"} /\ op' = "idle"
      BY <1>3 DEF StartFails, PollTimeout, DisableDone, Done
    <2> QED
      BY <2>1, UpStays DEF OpenInv, GroupUp
  <1>4. CASE StartMember
    <2>1. target \in Groups /\ next \in DOMAIN Members[target] /\ op = "starting"
      BY <1>4 DEF StartMember, IInv, TypeOK, Managing
    <2>0. PICK c \in Caps : c = Members[target][next]
      BY <2>1
    <2>2. inited' = [inited EXCEPT ![c] = TRUE] /\ running \subseteq running'
            /\ UNCHANGED <<groupState, target>>
      BY <1>4, <2>0, <2>1 DEF StartMember
    <2>3. \A b \in Caps : Up(b) => Up(b)'
      BY <2>2 DEF Up, IInv, TypeOK
    <2>4. \/ op' = "failed"
          \/ op' = "starting" /\ next' = next + 1 /\ Up(c)'
      <3>1. \/ op' = "failed"
            \/ op' = "starting" /\ next' = next + 1 /\ c \in running'
        BY <1>4, <2>0, <2>1 DEF StartMember
      <3>2. inited'[c]
        BY <2>2 DEF IInv, TypeOK
      <3> QED
        BY <3>1, <3>2 DEF Up
    <2>5. ASSUME op' = "starting", NEW i \in DOMAIN Members[target], i < next'
          PROVE  Up(Members[target][i])'
      <3>1. i < next \/ i = next
        BY <2>1, <2>4, <2>5
      <3>2. PICK b \in Caps : b = Members[target][i]
        BY <2>1
      <3>3. CASE i < next
        <4>1. Up(b)
          BY <2>1, <3>2, <3>3 DEF OpenInv
        <4> QED
          BY <2>2, <2>3, <3>2, <4>1
      <3>4. CASE i = next
        <4>1. b = c /\ Up(c)'
          BY <2>0, <2>4, <2>5, <3>2, <3>4
        <4> QED
          BY <2>2, <3>2, <4>1
      <3> QED
        BY <3>1, <3>3, <3>4
    <2> QED
      BY <2>1, <2>2, <2>3, <2>4, <2>5 DEF OpenInv, GroupUp
  <1>5. CASE StartDone
    <2>1. target \in Groups /\ op = "starting" /\ op' = "idle" /\ next > Len(Members[target])
            /\ UNCHANGED <<groupState, inited, running>> /\ next \in Nat
      BY <1>5 DEF StartDone, Done, IInv, TypeOK, Managing
    <2>2. GroupUp(target)
      BY <2>1 DEF OpenInv, GroupUp
    <2> QED
      BY <2>1, <2>2, UpStays DEF OpenInv, GroupUp
  <1>6. CASE UndoEnable
    <2>1. target \in Groups /\ op = "failed" /\ op' = "idle" /\ groupState'[target] = "disabled"
            /\ UNCHANGED <<inited, running>>
            /\ \A h \in Groups : h # target => groupState'[h] = groupState[h]
      BY <1>6 DEF UndoEnable, Done, SetState, IInv, TypeOK, Managing
    <2> QED
      BY <2>1, UpStays DEF OpenInv, GroupUp
  <1>7. CASE Unload
    <2>1. target \in Groups /\ op = "polling" /\ op' = "unloading" /\ groupState'[target] = "unloading"
            /\ UNCHANGED <<inited, running>>
            /\ \A h \in Groups : h # target => groupState'[h] = groupState[h]
      BY <1>7 DEF Unload, Begin, SetState, IInv, TypeOK, Managing
    <2> QED
      BY <2>1, UpStays DEF OpenInv, GroupUp
  <1>8. CASE StopMember
    <2>1. /\ target \in Groups /\ op \in {"stopping", "unloading"} /\ groupState[target] # "started"
          /\ next \in DOMAIN Members[target] /\ running' = running \ {Members[target][next]}
          /\ UNCHANGED <<groupState, inited, op, target>>
      BY <1>8 DEF StopMember, OpenInv, IInv, TypeOK, Managing
    <2>2. ASSUME NEW g \in Groups, groupState[g] = "started" PROVE GroupUp(g)'
      <3>1. g # target
        BY <2>1, <2>2
      <3>2. \A i \in DOMAIN Members[g] : Members[g][i] # Members[target][next]
        BY <2>1, <3>1
      <3> QED
        BY <2>1, <2>2, <3>2 DEF OpenInv, GroupUp, Up
    <2> QED
      BY <2>1, <2>2 DEF OpenInv
  <1>9. CASE Clear
    <2>1. /\ target \in Groups /\ op = "unloading" /\ op' = "idle" /\ UNCHANGED running
          /\ groupState'[target] = "free"
          /\ \A h \in Groups : h # target => groupState'[h] = groupState[h]
          /\ inited' = [c \in Caps |-> inited[c] /\ GroupOf(c) # target]
      BY <1>9 DEF Clear, Done, SetState, IInv, TypeOK, Managing
    <2>2. ASSUME NEW g \in Groups, groupState'[g] = "started" PROVE GroupUp(g)'
      <3>1. g # target /\ groupState[g] = "started"
        BY <2>1, <2>2
      <3>2. GroupUp(g)
        BY <2>1, <3>1 DEF OpenInv
      <3>3. ASSUME NEW i \in DOMAIN Members[g] PROVE Up(Members[g][i])'
        <4>1. Members[g][i] \in Caps /\ GroupOf(Members[g][i]) # target /\ Up(Members[g][i])
          BY <3>1, <3>2, <3>3 DEF GroupUp
        <4> QED
          BY <2>1, <4>1 DEF Up
      <3> QED
        BY <3>3 DEF GroupUp
    <2> QED
      BY <2>1, <2>2 DEF OpenInv
  <1>10. CASE UNCHANGED <<groupState, inited, running, op, target, next>>
    BY <1>10 DEF OpenInv, GroupUp, Up
  <1>11. ASSUME NEW k \in Callers, Caller(k) PROVE OpenInv'
    BY <1>10, <1>11 DEF Caller, Call, Return, opVars
  <1> QED
    BY <1>1, <1>2, <1>3, <1>4, <1>5, <1>6, <1>7, <1>8, <1>9, <1>10, <1>11
    DEF Next, Manager, BootGroup, EnableGroup, vars, opVars

-----------------------------------------------------------------------------
(* The theorems.                                                            *)

LEMMA Invariant == Spec => []IInv
  BY InitEstablishes, StepKeeps, PTL DEF Spec

\* Every variable keeps its type; a call counter never falls below zero.
THEOREM TypeCorrect == Spec => []TypeOK
  <1>1. IInv => TypeOK
    BY DEF IInv
  <1> QED
    BY <1>1, Invariant, PTL

\* A capability is callable exactly when its group is.
THEOREM MembersFollow == Spec => []MembersFollowGroup
  <1>1. IInv => MembersFollowGroup
    BY DEF IInv
  <1> QED
    BY <1>1, Invariant, PTL

\* The counter of a descriptor is the number of callers executing it.
THEOREM CallsAreCounted == Spec => []CallsCounted
  <1>1. IInv => CallsCounted
    BY DEF IInv
  <1> QED
    BY <1>1, Invariant, PTL

\* No call executes a capability of a group that is unloaded or gone.
THEOREM UnloadingIsAlone == Spec => []NoCallOnUnloaded
  <1>1. IInv => NoCallOnUnloaded
    BY DEF IInv
  <1> QED
    BY <1>1, Invariant, PTL

\* Calls meet the state of their group.
THEOREM CallsMeetTheirGroup == Spec => []CallsAreSafe
  BY MembersFollow, CallsAreCounted, UnloadingIsAlone, PTL DEF CallsAreSafe

\* When the managing task is through, a group that is open to calls has all its
\* members initialised and started.
THEOREM OpenGroupsAreReady == Spec => []OpenIsReady
  <1>1. Init => OpenInv
    BY RegistryAssumption DEF Init, OpenInv
  <1>2. OpenInv => OpenIsReady
    <2> SUFFICES ASSUME OpenInv, op = "idle", NEW c \in Caps, groupState[GroupOf(c)] = "started"
                 PROVE  Up(c)
      BY DEF OpenIsReady, Up
    <2>1. PICK g \in Groups : \E i \in DOMAIN Members[g] : Members[g][i] = c
      BY RegistryAssumption
    <2>2. GroupOf(c) = g
      BY <2>1, GroupOfMember
    <2> QED
      BY <2>1, <2>2 DEF OpenInv, GroupUp
  <1> QED
    BY <1>1, <1>2, Invariant, OpenStep, PTL DEF Spec
=============================================================================
