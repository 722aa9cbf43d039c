-------------------------- MODULE ClawCore_proofs ---------------------------
(***************************************************************************)
(* Proofs about ClawCore for every set of requests, every assignment of    *)
(* sessions and flags to them and every length of the queues: its          *)
(* invariants, and that it implements RequestLifecycle.                    *)
(***************************************************************************)
EXTENDS ClawCoreLifecycle, TLAPS

(* The task's local item and the shared inflight fields, place by place.   *)
TaskInv ==
  /\ task = "off" <=> ~started
  /\ task \in Working => inflight = cur
  /\ task \notin Working => inflight = None
  /\ task \in Working \cup {"begin", "report", "push"} => cur \in Requests
  /\ task = "check" => cur \in Requests \cup {Wake}
  /\ task \in {"off", "loop", "recv", "exit"} => cur = None
  /\ task \in Working \ {"finish", "release"} => iteration < MaxToolIterations

(* A wake item exists only once the stop flag is up.                       *)
WakeInv ==
  /\ stopper # "none" => stopRequested
  /\ \A i \in DOMAIN requestQ : requestQ[i] = Wake => stopRequested
  /\ cur = Wake => stopRequested /\ task = "check"

BaseInv == TypeOK /\ TaskInv /\ WakeInv /\ InputsBelongToInflight

LEMMA InitBase == Init => BaseInv
<1>. SUFFICES ASSUME Init PROVE BaseInv
  OBVIOUS
<1>. USE CoreAssumption DEF Init
<1>1. TypeOK
  <2>1. 0 \in 0..MaxToolIterations
    OBVIOUS
  <2>2. /\ Len(requestQ) <= RequestQueueLen
        /\ Len(responseQ) <= ResponseQueueLen
        /\ Len(insertQ) <= InsertQueueLen
    OBVIOUS
  <2>3. /\ requestQ \in Seq(Requests \cup {Wake})
        /\ responseQ \in Seq(Requests) /\ insertQ \in Seq(Requests)
        /\ turn \in Seq({"user", "tool", "final"})
    OBVIOUS
  <2>4. /\ submitter \in [Requests -> {"new", "try", "send", "accepted", "rejected"}]
        /\ host \in [Requests -> Requests \cup {None}]
    OBVIOUS
  <2>. QED BY <2>1, <2>2, <2>3, <2>4 DEF TypeOK, Phases, Outcomes, WorkerPlaces
<1>2. TaskInv
  BY DEF TaskInv, Working
<1>3. WakeInv
  BY DEF WakeInv
<1>4. InputsBelongToInflight
  BY DEF InputsBelongToInflight
<1>. QED BY <1>1, <1>2, <1>3, <1>4 DEF BaseInv

LEMMA SubmittersBase ==
  ASSUME BaseInv, Submitters PROVE BaseInv'
<1>. PICK r \in Requests :
       \/ Submit(r) \/ InsertInput(r) \/ RefuseInput(r) \/ FallThrough(r)
       \/ SendRequest(r) \/ SendTimeout(r)
  BY DEF Submitters
<1>. USE CoreAssumption DEF BaseInv, TypeOK, TaskInv, WakeInv, InputsBelongToInflight, Working,
     lifeVars, queueVars, sharedVars, workerVars, historyVars
<1>1. CASE Submit(r)
  BY <1>1 DEF Submit
<1>2. CASE InsertInput(r)
  BY <1>2 DEF InsertInput, ArmInterrupt, Insertable
<1>3. CASE RefuseInput(r)
  BY <1>3 DEF RefuseInput
<1>4. CASE FallThrough(r)
  BY <1>4 DEF FallThrough
<1>5. CASE SendRequest(r)
  BY <1>5 DEF SendRequest
<1>6. CASE SendTimeout(r)
  BY <1>6 DEF SendTimeout
<1>. QED BY <1>1, <1>2, <1>3, <1>4, <1>5, <1>6
LEMMA ControllersBase ==
  ASSUME BaseInv, Start \/ Canceller \/ Stopper \/ TakeResponse PROVE BaseInv'
<1>. USE CoreAssumption DEF BaseInv, TypeOK, TaskInv, WakeInv, InputsBelongToInflight, WorkerPlaces,
     Working, lifeVars, queueVars, sharedVars, workerVars, historyVars
<1>1. CASE Start
  BY <1>1 DEF Start
<1>2. CASE Canceller
  BY <1>2 DEF Canceller, CancelRequest, CancelMatches, ArmCancel
<1>3. CASE StopBegin
  BY <1>3 DEF StopBegin
<1>4. CASE StopCancel
  <2>1. CASE CancelMatches(None) /\ ArmCancel
    BY <1>4, <2>1 DEF StopCancel, CancelMatches, ArmCancel
  <2>2. CASE UNCHANGED <<abort, cancelled>>
    BY <1>4, <2>2 DEF StopCancel
  <2>. QED BY <1>4, <2>1, <2>2 DEF StopCancel
<1>5. CASE StopWake
  BY <1>5 DEF StopWake
<1>6. CASE StopReturn
  BY <1>6 DEF StopReturn
<1>7. CASE TakeResponse
  BY <1>7 DEF TakeResponse
<1>. QED BY <1>1, <1>2, <1>3, <1>4, <1>5, <1>6, <1>7 DEF Stopper

(* All inputs waiting are of the session of the request under way, so a     *)
(* drain takes them all.                                                   *)
LEMMA DrainsAll ==
  ASSUME insertQ \in Seq(Requests), InputsBelongToInflight, inflight = cur
  PROVE  Drainable = Len(insertQ)
<1>. DEFINE S(i) == SessionOf[insertQ[i]] = SessionOf[cur]
            Ends(n) == /\ \A i \in 1..n : S(i)
                       /\ n < Len(insertQ) => ~S(n + 1)
<1>1. \A i \in 1..Len(insertQ) : S(i)
  BY DEF InputsBelongToInflight
<1>2. Ends(Len(insertQ))
  BY <1>1
<1>3. \A n \in 0..Len(insertQ) : Ends(n) => n = Len(insertQ)
  BY <1>1
<1>4. Drainable = CHOOSE n \in 0..Len(insertQ) : Ends(n)
  BY DEF Drainable
<1>. HIDE DEF Ends
<1>. QED BY <1>2, <1>3, <1>4

LEMMA WorkerBase ==
  ASSUME BaseInv, Worker PROVE BaseInv'
<1>. USE CoreAssumption DEF BaseInv, TypeOK, TaskInv, WakeInv, InputsBelongToInflight, WorkerPlaces,
     Working, Phases, Outcomes, lifeVars, queueVars, sharedVars, workerVars,
     historyVars, Goto, Skip
<1>1. CASE Loop
  BY <1>1 DEF Loop
<1>2. CASE Receive
  BY <1>2 DEF Receive
<1>3. CASE CheckStop
  BY <1>3 DEF CheckStop
<1>4. CASE Begin
  <2>1. iteration' \in 0..MaxToolIterations /\ iteration' < MaxToolIterations
    BY <1>4 DEF Begin
  <2>2. insertQ' \in Seq(Requests) /\ Len(insertQ') <= InsertQueueLen
    BY <1>4 DEF Begin
  <2>3. turn' \in Seq({"user", "tool", "final"})
    BY <1>4 DEF Begin
  <2>4. InputsBelongToInflight'
    BY <1>4 DEF Begin
  <2>5. TypeOK'
    BY <1>4, <2>1, <2>2, <2>3 DEF Begin
  <2>6. TaskInv' /\ WakeInv'
    BY <1>4, <2>1 DEF Begin
  <2>. QED BY <2>4, <2>5, <2>6
<1>5. CASE Gate
  BY <1>5 DEF Gate, FinishAs
<1>6. CASE StartRequest
  BY <1>6 DEF StartRequest, Persisted
<1>7. CASE Iterate \/ EnterBuild \/ EnterHttp \/ Answered \/ ToolCalls
           \/ EnterTool \/ Finish
  BY <1>7 DEF Iterate, EnterBuild, EnterHttp, Answered, ToolCalls, EnterTool,
     Finish, SetPhase
<1>8. CASE Drain
  <2>1. ASSUME NEW p \in DOMAIN AfterDrain,
               DrainSome(p)
        PROVE  BaseInv'
    <3>1. Drainable = Len(insertQ)
      BY <2>1, DrainsAll DEF DrainSome, AfterDrain
    <3>2. insertQ' = <<>>
      BY <2>1, <3>1 DEF DrainSome
    <3>3. absorbed' \subseteq Requests
      BY <2>1, <3>1 DEF DrainSome
    <3>4. insertQ' \in Seq(Requests) /\ Len(insertQ') <= InsertQueueLen
      BY <3>2
    <3>. QED BY <2>1, <3>2, <3>3, <3>4 DEF DrainSome, AfterDrain
  <2>2. ASSUME NEW p \in DOMAIN AfterDrain, DrainNone(p)
        PROVE  BaseInv'
    BY <2>2 DEF DrainNone, AfterDrain
  <2>. QED BY <1>8, <2>1, <2>2 DEF Drain
<1>9. CASE ClearInterrupt
  BY <1>9 DEF ClearInterrupt, Persisted
<1>10. CASE Build
  BY <1>10 DEF Build, SetPhase, FinishAs
<1>11. CASE Chat
  BY <1>11 DEF Chat
<1>12. CASE TakeAbort
  BY <1>12 DEF TakeAbort
<1>13. CASE Complete
  BY <1>13 DEF Complete, Persisted
<1>14. CASE Tool
  <2>1. CASE FinishAs("tool", "failed")
    BY <2>1 DEF FinishAs
  <2>2. CASE ~FinishAs("tool", "failed")
    <3>1. /\ task = "tool" /\ iteration' = iteration + 1
          /\ turn' = Persisted("tool")
          /\ IF iteration' >= MaxToolIterations
             THEN task' = "finish" /\ outcome' = "failed"
             ELSE task' = "iterate" /\ UNCHANGED outcome
          /\ UNCHANGED <<lifeVars, queueVars, sharedVars, cur, submitter, historyVars>>
      BY <1>14, <2>2 DEF Tool
    <3>2. iteration' \in 0..MaxToolIterations
      BY <3>1
    <3>3. task' \notin {"finish"} => iteration' < MaxToolIterations
      BY <3>1, <3>2
    <3>4. turn' \in Seq({"user", "tool", "final"})
      BY <3>1 DEF Persisted
    <3>. QED BY <3>1, <3>2, <3>3, <3>4
  <2>. QED BY <2>1, <2>2
<1>15. CASE Release
  BY <1>15 DEF Release
<1>16. CASE Report
  BY <1>16 DEF Report, EndRequest, Persisted
<1>17. CASE Push
  BY <1>17 DEF Push, EndRequest
<1>18. CASE Exit
  <2>1. task = "exit" /\ task' = "off" /\ started' = FALSE
    BY <1>18 DEF Exit
  <2>2. UNCHANGED <<stopRequested, stopper, queueVars, sharedVars, cur, iteration,
                    outcome, turn, submitter, historyVars>>
    BY <1>18 DEF Exit
  <2>3. TypeOK'
    BY <2>1, <2>2
  <2>4. TaskInv'
    BY <2>1, <2>2
  <2>5. WakeInv' /\ InputsBelongToInflight'
    BY <2>1, <2>2
  <2>. QED BY <2>3, <2>4, <2>5
<1>. QED BY <1>1, <1>2, <1>3, <1>4, <1>5, <1>6, <1>7, <1>8, <1>9, <1>10, <1>11,
          <1>12, <1>13, <1>14, <1>15, <1>16, <1>17, <1>18 DEF Worker
THEOREM BaseInvariant == Spec => []BaseInv
<1>1. BaseInv /\ [Next]_vars => BaseInv'
  <2>. SUFFICES ASSUME BaseInv, [Next]_vars PROVE BaseInv'
    OBVIOUS
  <2>1. CASE Next
    BY <2>1, SubmittersBase, ControllersBase, WorkerBase DEF Next
  <2>2. CASE UNCHANGED vars
    BY <2>2 DEF vars, lifeVars, queueVars, sharedVars, workerVars, historyVars,
       BaseInv, TypeOK, TaskInv, WakeInv, InputsBelongToInflight
  <2>. QED BY <2>1, <2>2
<1>. QED BY InitBase, <1>1, PTL DEF Spec

(* Every variable stays in its type: no queue overruns its length, and the *)
(* rounds of a request never exceed the configured maximum.                *)
THEOREM TypeCorrect == Spec => []TypeOK
<1>1. BaseInv => TypeOK
  BY DEF BaseInv
<1>. QED BY BaseInvariant, <1>1, PTL

(* Abort and insert queue belong to the request in flight and to no other. *)
THEOREM InputsBelong == Spec => []InputsBelongToInflight
<1>1. BaseInv => InputsBelongToInflight
  BY DEF BaseInv
<1>. QED BY BaseInvariant, <1>1, PTL

(* A stop's wake item is never begun as a request.                         *)
THEOREM WakeIsNoRequest == Spec => []WakeNotServed
<1>1. BaseInv => WakeNotServed
  BY DEF BaseInv, WakeInv, WakeNotServed
<1>. QED BY BaseInvariant, <1>1, PTL
-----------------------------------------------------------------------------
(* Interrupts and cancels.                                                  *)

(* Up to its last phase a request has no outcome; once a cancel is armed    *)
(* before the answer, it is still armed in all of these phases.             *)
CancelInv ==
  /\ task \in Working \ {"finish", "release"} => outcome = "none"
  /\ cancelled => task \notin {"answered", "complete"} /\ outcome # "answer"
  /\ cancelled /\ task \in Working \ {"finish", "release"} => abort = "cancel"

AbortInv == InterruptAbortHasInput /\ NoBlankOutcome /\ CancelInv

LEMMA InitAbort == Init => AbortInv
  BY DEF Init, AbortInv, InterruptAbortHasInput, NoBlankOutcome, CancelInv, Working

LEMMA SubmittersAbort ==
  ASSUME BaseInv, AbortInv, Submitters PROVE AbortInv'
<1>. PICK r \in Requests :
       \/ Submit(r) \/ InsertInput(r) \/ RefuseInput(r) \/ FallThrough(r)
       \/ SendRequest(r) \/ SendTimeout(r)
  BY DEF Submitters
<1>. USE CoreAssumption DEF BaseInv, TypeOK, AbortInv, InterruptAbortHasInput,
     NoBlankOutcome, CancelInv, lifeVars, queueVars, sharedVars, workerVars,
     historyVars
<1>1. CASE InsertInput(r)
  <2>1. insertQ' # <<>>
    BY <1>1 DEF InsertInput
  <2>. QED BY <1>1, <2>1 DEF InsertInput, ArmInterrupt
<1>2. CASE ~InsertInput(r)
  BY <1>2 DEF Submit, RefuseInput, FallThrough, SendRequest, SendTimeout
<1>. QED BY <1>1, <1>2

LEMMA ControllersAbort ==
  ASSUME BaseInv, AbortInv, Start \/ Canceller \/ Stopper \/ TakeResponse
  PROVE  AbortInv'
<1>. USE DEF BaseInv, TypeOK, TaskInv, WorkerPlaces, Working, AbortInv,
     InterruptAbortHasInput, NoBlankOutcome, CancelInv, lifeVars, queueVars,
     sharedVars, workerVars, historyVars
<1>1. CASE Start
  BY <1>1 DEF Start
<1>2. ASSUME NEW r, CancelMatches(r), ArmCancel,
             UNCHANGED <<inflight, insertQ, task, outcome>>
      PROVE  AbortInv'
  BY <1>2 DEF CancelMatches, ArmCancel
<1>3. CASE Canceller
  BY <1>2, <1>3 DEF Canceller, CancelRequest
<1>4. CASE StopCancel
  BY <1>2, <1>4 DEF StopCancel
<1>5. CASE StopBegin \/ StopWake \/ StopReturn \/ TakeResponse
  BY <1>5 DEF StopBegin, StopWake, StopReturn, TakeResponse
<1>. QED BY <1>1, <1>3, <1>4, <1>5 DEF Stopper

LEMMA WorkerAbort ==
  ASSUME BaseInv, AbortInv, Worker PROVE AbortInv'
<1>. USE DEF BaseInv, TypeOK, TaskInv, WorkerPlaces, Working, AbortInv,
     InterruptAbortHasInput, NoBlankOutcome, CancelInv, lifeVars, queueVars,
     sharedVars, workerVars, historyVars, Goto, Skip
<1>1. CASE Loop \/ Receive \/ CheckStop \/ Begin \/ Gate \/ StartRequest
  BY <1>1 DEF Loop, Receive, CheckStop, Begin, Gate, StartRequest, FinishAs
<1>2. CASE Iterate \/ EnterBuild \/ EnterHttp \/ Answered \/ ToolCalls
           \/ EnterTool \/ Finish
  BY <1>2 DEF Iterate, EnterBuild, EnterHttp, Answered, ToolCalls, EnterTool,
     Finish, SetPhase
<1>3. CASE Drain
  <2>1. ASSUME NEW p \in DOMAIN AfterDrain,
               DrainSome(p)
        PROVE  AbortInv'
    BY <2>1 DEF DrainSome, AfterDrain
  <2>2. task = "drainAbort" => ~NothingToDrain
    <3>. SUFFICES ASSUME task = "drainAbort", NothingToDrain PROVE FALSE
      OBVIOUS
    <3>1. Drainable = Len(insertQ) /\ inflight = cur
      BY DrainsAll
    <3>2. 1 \in DOMAIN insertQ /\ Len(insertQ) # 0
      OBVIOUS
    <3>3. SessionOf[cur] # NoSession
      BY <3>1, <3>2 DEF InputsBelongToInflight
    <3>. QED BY <3>1, <3>2, <3>3 DEF NothingToDrain
  <2>3. ASSUME NEW p \in DOMAIN AfterDrain, DrainNone(p)
        PROVE  AbortInv'
    BY <2>2, <2>3 DEF DrainNone, AfterDrain
  <2>. QED BY <1>3, <2>1, <2>3 DEF Drain
<1>4. CASE ClearInterrupt
  BY <1>4 DEF ClearInterrupt
<1>5. CASE Build \/ Chat \/ TakeAbort \/ Complete
  BY <1>5 DEF Build, Chat, TakeAbort, Complete, SetPhase, FinishAs
<1>6. CASE Tool
  BY <1>6 DEF Tool, FinishAs
<1>7. CASE Release
  BY <1>7 DEF Release
<1>8. CASE Report \/ Push \/ Exit
  BY <1>8 DEF Report, Push, Exit, EndRequest
<1>. QED BY <1>1, <1>2, <1>3, <1>4, <1>5, <1>6, <1>7, <1>8 DEF Worker

THEOREM AbortInvariant == Spec => []AbortInv
<1>1. BaseInv /\ AbortInv /\ [Next]_vars => AbortInv'
  <2>. SUFFICES ASSUME BaseInv, AbortInv, [Next]_vars PROVE AbortInv'
    OBVIOUS
  <2>1. CASE Next
    BY <2>1, SubmittersAbort, ControllersAbort, WorkerAbort DEF Next
  <2>2. CASE UNCHANGED vars
    BY <2>2 DEF vars, lifeVars, queueVars, sharedVars, workerVars, historyVars,
       AbortInv, InterruptAbortHasInput, NoBlankOutcome, CancelInv
  <2>. QED BY <2>1, <2>2
<1>. QED BY InitAbort, BaseInvariant, <1>1, PTL DEF Spec

(* A chat is aborted for an input only while that input waits to be drained. *)
THEOREM InterruptHasInput == Spec => []InterruptAbortHasInput
<1>1. AbortInv => InterruptAbortHasInput
  BY DEF AbortInv
<1>. QED BY AbortInvariant, <1>1, PTL

(* Every response carries a text or an error message.                      *)
THEOREM NoBlankResponse == Spec => []NoBlankOutcome
<1>1. AbortInv => NoBlankOutcome
  BY DEF AbortInv
<1>. QED BY AbortInvariant, <1>1, PTL

(* A request cancelled before its answer came in is never answered.        *)
THEOREM CancelledIsNotAnswered == Spec => []CancelPreventsAnswer
<1>1. AbortInv => CancelPreventsAnswer
  BY DEF AbortInv, CancelInv, CancelPreventsAnswer
<1>. QED BY AbortInvariant, <1>1, PTL

(* Neither an inserted input nor a drain takes a cancel back.              *)
THEOREM CancelIsSticky == Spec => CancelSticky
<1>. DEFINE Sticky == abort = "cancel" /\ inflight' = inflight => abort' = "cancel"
<1>1. BaseInv /\ [Next]_vars => [Sticky]_vars
  <2>. SUFFICES ASSUME BaseInv, Next, abort = "cancel", inflight' = inflight
                PROVE  abort' = "cancel"
    BY DEF vars
  <2>. USE CoreAssumption DEF BaseInv, TaskInv, Working, sharedVars, Goto, Skip
  <2>1. CASE Start \/ Stopper \/ TakeResponse \/ Canceller
    BY <2>1 DEF Start, Stopper, StopBegin, StopCancel, StopWake, StopReturn,
       TakeResponse, Canceller, CancelRequest, ArmCancel
  <2>2. CASE Submitters
    BY <2>2 DEF Submitters, Submit, InsertInput, ArmInterrupt, RefuseInput,
       FallThrough, SendRequest, SendTimeout
  <2>3. CASE Worker
    <3>1. CASE Begin \/ Release
      BY <3>1 DEF Begin, Release, InputsBelongToInflight
    <3>2. CASE ClearInterrupt \/ TakeAbort
      BY <3>2 DEF ClearInterrupt, TakeAbort
    <3>3. CASE Loop \/ Receive \/ CheckStop \/ Gate \/ StartRequest \/ Iterate
               \/ EnterBuild \/ Build \/ EnterHttp \/ Chat \/ Answered
               \/ Complete \/ ToolCalls \/ EnterTool \/ Finish
      BY <3>3 DEF Loop, Receive, CheckStop, Gate, StartRequest, Iterate,
         EnterBuild, Build, EnterHttp, Chat, Answered, Complete, ToolCalls,
         EnterTool, Finish, SetPhase, FinishAs
    <3>4. CASE Drain
      BY <3>4 DEF Drain, DrainSome, DrainNone
    <3>5. CASE Tool \/ Report \/ Push \/ Exit
      BY <3>5 DEF Tool, Report, Push, Exit, FinishAs
    <3>. QED BY <2>3, <3>1, <3>2, <3>3, <3>4, <3>5 DEF Worker
  <2>. QED BY <2>1, <2>2, <2>3 DEF Next
<1>. QED BY BaseInvariant, <1>1, PTL DEF Spec, CancelSticky
-----------------------------------------------------------------------------
(* The persisted turn.                                                      *)

NoFinal(t) == \A i \in DOMAIN t : t[i] # "final"

Closed(t) ==
  /\ \A i \in DOMAIN t : t[i] = "final" => i = Len(t)
  /\ t # <<>> => t[Len(t)] = "final"

Ending == {"finish", "release", "report"}

(* A turn is open while its request is worked on, closed by an answer, and  *)
(* left open by a failure until the failure note of Report.                 *)
TurnInv ==
  /\ task \in Working \ Ending => NoFinal(turn)
  /\ task \in {"gate", "start"} => turn = <<>>
  /\ task \in Ending =>
       /\ outcome \in {"notice", "answer", "failed", "cancelled"}
       /\ outcome = "notice" => turn = <<>>
       /\ outcome = "answer" => Closed(turn)
       /\ outcome \in {"failed", "cancelled"} => NoFinal(turn)
  /\ task \in Working \cup {"report"} /\ SessionOf[cur] = NoSession => turn = <<>>
  /\ task \notin Working \cup {"report"} => Closed(turn)

LEMMA AppendBatch ==
  ASSUME NEW t \in Seq({"user", "tool", "final"}), NoFinal(t)
  PROVE  /\ \A b \in {"user", "tool"} : NoFinal(Append(t, b))
         /\ Closed(Append(t, "final"))
  BY DEF NoFinal, Closed

LEMMA TurnStep ==
  ASSUME BaseInv, AbortInv', TurnInv, [Next]_vars PROVE TurnInv'
<1>. USE DEF BaseInv, TypeOK, TaskInv, WorkerPlaces, Working, Ending, TurnInv,
     lifeVars, queueVars, sharedVars, workerVars, historyVars, Goto, Skip
<1>1. CASE Start \/ Submitters \/ Canceller \/ Stopper \/ TakeResponse \/ UNCHANGED vars
  <2>1. CASE Start
    BY <2>1 DEF Start
  <2>2. CASE ~Start
    <3>1. UNCHANGED <<task, turn, outcome, cur>>
      BY <1>1, <2>2 DEF Submitters, Submit, InsertInput, RefuseInput, FallThrough,
         SendRequest, SendTimeout, Canceller, CancelRequest, Stopper, StopBegin,
         StopCancel, StopWake, StopReturn, TakeResponse, vars
    <3>. QED BY <3>1
  <2>. QED BY <2>1, <2>2
<1>2. CASE Loop \/ Receive \/ CheckStop
  BY <1>2 DEF Loop, Receive, CheckStop
<1>3. CASE Begin
  BY <1>3 DEF Begin, NoFinal
<1>4. CASE Gate
  BY <1>4 DEF Gate, FinishAs, NoFinal
<1>5. CASE StartRequest
  <2>1. NoFinal(turn')
    BY <1>5, AppendBatch DEF StartRequest, Persisted
  <2>. QED BY <1>5, <2>1 DEF StartRequest, Persisted
<1>6. CASE Iterate \/ EnterBuild \/ EnterHttp \/ Answered \/ ToolCalls
           \/ EnterTool \/ Finish
  BY <1>6 DEF Iterate, EnterBuild, EnterHttp, Answered, ToolCalls, EnterTool,
     Finish, SetPhase
<1>7. CASE Drain
  BY <1>7 DEF Drain, DrainSome, DrainNone, AfterDrain, AbortInv, NoBlankOutcome
<1>8. CASE ClearInterrupt
  BY <1>8, AppendBatch DEF ClearInterrupt, Persisted
<1>9. CASE Build \/ Chat \/ TakeAbort
  BY <1>9 DEF Build, Chat, TakeAbort, SetPhase, FinishAs
<1>10. CASE Complete
  <2>1. turn' = <<>> \/ Closed(turn')
    BY <1>10, AppendBatch DEF Complete, Persisted
  <2>. QED BY <1>10, <2>1 DEF Complete, Persisted, Closed
<1>11. CASE Tool
  BY <1>11, AppendBatch DEF Tool, Persisted, FinishAs
<1>12. CASE Release
  BY <1>12 DEF Release
<1>13. CASE Report
  <2>1. Closed(turn')
    BY <1>13, AppendBatch DEF Report, Persisted, Closed
  <2>. QED BY <1>13, <2>1 DEF Report, EndRequest
<1>14. CASE Push \/ Exit
  BY <1>14 DEF Push, Exit, EndRequest
<1>. QED BY <1>1, <1>2, <1>3, <1>4, <1>5, <1>6, <1>7, <1>8, <1>9, <1>10, <1>11,
          <1>12, <1>13, <1>14 DEF Next, Worker

(* A request's turn is closed by exactly one final batch, its last.        *)
THEOREM TurnIsClosed == Spec => []TurnClosed
<1>1. Init => TurnInv
  BY DEF Init, TurnInv, Working, Ending, Closed
<1>2. BaseInv /\ AbortInv' /\ TurnInv /\ [Next]_vars => TurnInv'
  BY TurnStep
<1>3. BaseInv /\ TurnInv => TurnClosed
  BY DEF BaseInv, TypeOK, TurnInv, TurnClosed, Working, WorkerPlaces, Ending, NoFinal, Closed
<1>. QED BY BaseInvariant, AbortInvariant, <1>1, <1>2, <1>3, PTL DEF Spec

(* What is in flight is a request with its own inputs.                     *)
THEOREM InflightStaysClean == Spec => []InflightIsClean
BY InputsBelong, WakeIsNoRequest, PTL DEF InflightIsClean

(* A cancel holds: no step takes it back, and it keeps the answer away.    *)
THEOREM CancelKeepsHolding == Spec => CancelHolds
BY CancelledIsNotAnswered, CancelIsSticky, PTL DEF CancelHolds
-----------------------------------------------------------------------------
(***************************************************************************)
(* ClawCore implements RequestLifecycle: the initial state is one of the   *)
(* lifecycle's, and every step is one of its steps or leaves its variables *)
(* alone.                                                                  *)
(***************************************************************************)

(* A request is at one place only: with its submitter, in the queue, with  *)
(* the worker, or in the insert queue of the request it was inserted into. *)
PlaceOf(r) ==
  /\ submitter[r] # "accepted" =>
       /\ host[r] = None /\ r \notin done /\ r \notin absorbed /\ cur # r
       /\ ~In(r, requestQ) /\ ~In(r, insertQ)
  /\ In(r, requestQ) => host[r] = None /\ r \notin done /\ cur # r
  /\ In(r, insertQ) => host[r] # None /\ r \notin absorbed
  /\ cur = r => host[r] = None /\ r \notin done
QueuedOnce ==
  \A i, j \in DOMAIN requestQ : requestQ[i] \in Requests /\ requestQ[i] = requestQ[j] => i = j
PlaceInv == QueuedOnce /\ \A r \in Requests : PlaceOf(r)

Inv == BaseInv /\ PlaceInv

Status == [r \in Requests |-> Stage(r)]

-----------------------------------------------------------------------------
(* Queues.                                                                  *)

LEMMA InAppended ==
  ASSUME NEW S, NEW q \in Seq(S), NEW x \in S
  PROVE  \A r : In(r, Append(q, x)) <=> In(r, q) \/ r = x
<1>. SUFFICES ASSUME NEW r PROVE In(r, Append(q, x)) <=> In(r, q) \/ r = x
  OBVIOUS
<1>1. ASSUME In(r, q) PROVE In(r, Append(q, x))
  <2>1. PICK i \in DOMAIN q : q[i] = r
    BY <1>1 DEF In
  <2>2. i \in DOMAIN Append(q, x) /\ Append(q, x)[i] = r
    BY <2>1
  <2>. QED BY <2>2 DEF In
<1>2. In(x, Append(q, x))
  <2>1. Len(q) + 1 \in DOMAIN Append(q, x) /\ Append(q, x)[Len(q) + 1] = x
    OBVIOUS
  <2>. QED BY <2>1 DEF In
<1>3. ASSUME In(r, Append(q, x)), r # x PROVE In(r, q)
  <2>1. PICK i \in DOMAIN Append(q, x) : Append(q, x)[i] = r
    BY <1>3 DEF In
  <2>2. i \in DOMAIN q /\ q[i] = r
    BY <1>3, <2>1
  <2>. QED BY <2>2 DEF In
<1>. QED BY <1>1, <1>2, <1>3

LEMMA InHeadOrTail ==
  ASSUME NEW S, NEW q \in Seq(S), q # <<>>
  PROVE  \A r : In(r, q) <=> r = Head(q) \/ In(r, Tail(q))
<1>. SUFFICES ASSUME NEW r PROVE In(r, q) <=> r = Head(q) \/ In(r, Tail(q))
  OBVIOUS
<1>1. ASSUME In(r, q), r # Head(q) PROVE In(r, Tail(q))
  <2>1. PICK i \in DOMAIN q : q[i] = r
    BY <1>1 DEF In
  <2>2. i - 1 \in DOMAIN Tail(q) /\ Tail(q)[i - 1] = r
    BY <1>1, <2>1
  <2>. QED BY <2>2 DEF In
<1>2. In(Head(q), q)
  <2>1. 1 \in DOMAIN q /\ q[1] = Head(q)
    OBVIOUS
  <2>. QED BY <2>1 DEF In
<1>3. ASSUME In(r, Tail(q)) PROVE In(r, q)
  <2>1. PICK i \in DOMAIN Tail(q) : Tail(q)[i] = r
    BY <1>3 DEF In
  <2>2. i + 1 \in DOMAIN q /\ q[i + 1] = r
    BY <2>1
  <2>. QED BY <2>2 DEF In
<1>. QED BY <1>1, <1>2, <1>3

LEMMA InEmpty == \A r : ~In(r, <<>>)
BY DEF In

(* The head of the queue is not in it again.                                *)
LEMMA HeadIsGone ==
  ASSUME requestQ \in Seq(Requests \cup {Wake}), QueuedOnce, requestQ # <<>>,
         Head(requestQ) \in Requests
  PROVE  ~In(Head(requestQ), Tail(requestQ))
<1>. SUFFICES ASSUME NEW i \in DOMAIN Tail(requestQ), Tail(requestQ)[i] = Head(requestQ)
              PROVE  FALSE
  BY DEF In
<1>1. /\ i + 1 \in DOMAIN requestQ /\ 1 \in DOMAIN requestQ /\ i + 1 # 1
      /\ requestQ[i + 1] = requestQ[1] /\ requestQ[1] \in Requests
  OBVIOUS
<1>. QED BY <1>1 DEF QueuedOnce

-----------------------------------------------------------------------------
(* Steps the lifecycle does not see.                                        *)

(* What the stage of a request depends on.                                  *)
SameStage(r) ==
  /\ submitter'[r] = "rejected" <=> submitter[r] = "rejected"
  /\ submitter'[r] = "accepted" <=> submitter[r] = "accepted"
  /\ host'[r] = host[r]
  /\ r \in done' <=> r \in done
  /\ r \in absorbed' <=> r \in absorbed
  /\ In(r, requestQ') <=> In(r, requestQ)
  /\ In(r, insertQ') <=> In(r, insertQ)
  /\ cur' = r <=> cur = r
  /\ cur = r => /\ task' = "check" <=> task = "check"
                /\ task' \in {"report", "push"} <=> task \in {"report", "push"}

LEMMA StageStays == ASSUME NEW r, SameStage(r) PROVE Stage(r)' = Stage(r)
BY DEF SameStage, Stage, ServedStage, InsertedStage

LEMMA PlaceStays == ASSUME NEW r, PlaceOf(r), SameStage(r) PROVE PlaceOf(r)'
BY DEF SameStage, PlaceOf

Unseen ==
  /\ \A r \in Requests : SameStage(r)
  /\ requestQ' = requestQ /\ cur' = cur /\ host' = host
  /\ stopRequested' = stopRequested
  /\ task' = "check" <=> task = "check"

LEMMA UnseenStutters ==
  ASSUME PlaceInv, Unseen PROVE PlaceInv' /\ UNCHANGED Lifecycle!vars
<1>1. Status' = Status
  BY StageStays DEF Unseen, Status
<1>2. Queued' = Queued
  BY DEF Unseen, Queued
<1>3. PlaceInv'
  BY PlaceStays DEF Unseen, PlaceInv, QueuedOnce
<1>. QED BY <1>1, <1>2, <1>3 DEF Unseen, Lifecycle!vars, Status

(* Steps that only move the task, without a change of its class.            *)
Inside(p) == p \notin {"check", "report", "push"}
LEMMA Moving ==
  ASSUME UNCHANGED <<submitter, host, done, absorbed, requestQ, insertQ, cur, stopRequested>>,
         \/ task' = task
         \/ Inside(task) /\ Inside(task')
         \/ cur = None /\ task # "check" /\ task' # "check"
         \/ task = "report" /\ task' = "push"
  PROVE  Unseen
BY CoreAssumption DEF Unseen, SameStage, Inside

-----------------------------------------------------------------------------
(* Submitters.                                                              *)

Step == PlaceInv' /\ [Lifecycle!Next]_(Lifecycle!vars)

LEMMA OneMoves ==
  ASSUME NEW r \in Requests, NEW x, \A s \in Requests : s # r => SameStage(s), Stage(r)' = x
  PROVE  Status' = [Status EXCEPT ![r] = x]
BY StageStays DEF Status

LEMMA Rejected ==
  ASSUME Inv, NEW r \in Requests, submitter[r] \in {"new", "try", "send"},
         submitter' = [submitter EXCEPT ![r] = "rejected"],
         UNCHANGED <<host, done, absorbed, requestQ, insertQ, cur, stopRequested, task>>
  PROVE  Step
<1>1. Stage(r) = "new" /\ Stage(r)' = "rejected"
  BY DEF Inv, BaseInv, TypeOK, Stage
<1>2. \A s \in Requests : s # r => SameStage(s)
  BY DEF SameStage, Inv, BaseInv, TypeOK
<1>3. Status' = [Status EXCEPT ![r] = "rejected"]
  BY <1>1, <1>2, OneMoves
<1>4. Lifecycle!Reject(r)
  BY <1>1, <1>3 DEF Lifecycle!Reject, Status, Queued
<1>5. PlaceInv'
  <2>1. \A s \in Requests : PlaceOf(s)'
    BY DEF Inv, PlaceInv, PlaceOf, BaseInv, TypeOK
  <2>. QED BY <2>1 DEF Inv, PlaceInv, QueuedOnce
<1>. QED BY <1>4, <1>5 DEF Step, Lifecycle!Next

LEMMA Passed ==
  ASSUME Inv, NEW r \in Requests, submitter[r] \in {"new", "try"},
         submitter' = [submitter EXCEPT ![r] = "try"] \/ submitter' = [submitter EXCEPT ![r] = "send"],
         UNCHANGED <<host, done, absorbed, requestQ, insertQ, cur, stopRequested, task>>
  PROVE  Step
<1>1. Unseen
  BY DEF Unseen, SameStage, Inv, BaseInv, TypeOK
<1>. QED BY <1>1, UnseenStutters DEF Step, Inv

LEMMA SendIsAccept == ASSUME Inv, NEW r \in Requests, SendRequest(r) PROVE Step
<1>. USE DEF Inv, BaseInv, queueVars, lifeVars, workerVars, sharedVars, historyVars
<1>0. /\ requestQ \in Seq(Requests \cup {Wake}) /\ requestQ' = Append(requestQ, r)
      /\ submitter[r] = "send" /\ submitter' = [submitter EXCEPT ![r] = "accepted"]
      /\ UNCHANGED <<host, done, absorbed, insertQ, cur, stopRequested, task>>
  BY DEF SendRequest, TypeOK
<1>1. \A s : In(s, requestQ') <=> In(s, requestQ) \/ s = r
  BY <1>0, InAppended
<1>2. submitter'[r] = "accepted" /\ \A s \in Requests : s # r => submitter'[s] = submitter[s]
  BY <1>0 DEF TypeOK
<1>3. PlaceOf(r)
  BY DEF PlaceInv
<1>4. Stage(r) = "new" /\ Stage(r)' = "queued"
  BY <1>0, <1>1, <1>2, <1>3 DEF Stage, ServedStage, PlaceOf
<1>5. \A s \in Requests : s # r => SameStage(s)
  BY <1>0, <1>1, <1>2 DEF SameStage
<1>6. Status' = [Status EXCEPT ![r] = "queued"]
  BY <1>4, <1>5, OneMoves
<1>7. Queued' = IF stopRequested THEN Queued ELSE Append(Queued, r)
  <2>1. task = "check" => <<cur>> \o Append(requestQ, r) = Append(<<cur>> \o requestQ, r)
    <3>. SUFFICES ASSUME task = "check"
                  PROVE  <<cur>> \o Append(requestQ, r) = Append(<<cur>> \o requestQ, r)
      OBVIOUS
    <3>1. cur \in Requests \cup {Wake}
      BY DEF TaskInv
    <3>. QED BY <1>0, <3>1
  <2>. QED BY <1>0, <2>1 DEF Queued
<1>8. Lifecycle!Accept(r)
  BY <1>0, <1>4, <1>6, <1>7 DEF Lifecycle!Accept, Status
<1>9. PlaceInv'
  <2>1. \A s \in Requests : PlaceOf(s)'
    <3>. SUFFICES ASSUME NEW s \in Requests PROVE PlaceOf(s)'
      OBVIOUS
    <3>1. CASE s = r
      BY <1>0, <1>1, <1>2, <1>3, <3>1 DEF PlaceOf
    <3>2. CASE s # r
      BY <1>5, <3>2, PlaceStays DEF PlaceInv
    <3>. QED BY <3>1, <3>2
  <2>2. QueuedOnce'
    <3>. SUFFICES ASSUME NEW i \in DOMAIN requestQ', NEW j \in DOMAIN requestQ',
                         requestQ'[i] \in Requests, requestQ'[i] = requestQ'[j]
                  PROVE  i = j
      BY DEF QueuedOnce
    <3>1. ~In(r, requestQ)
      BY <1>0, <1>3 DEF PlaceOf
    <3>2. \A n \in DOMAIN requestQ' : \/ n \in DOMAIN requestQ /\ requestQ'[n] = requestQ[n]
                                      \/ n = Len(requestQ) + 1 /\ requestQ'[n] = r
      BY <1>0
    <3>. QED BY <3>1, <3>2 DEF In, PlaceInv, QueuedOnce
  <2>. QED BY <2>1, <2>2 DEF PlaceInv
<1>. QED BY <1>8, <1>9 DEF Step, Lifecycle!Next

(* The request in flight is the lifecycle's active one.                     *)
LEMMA ActiveOne ==
  ASSUME Inv, task \in Working
  PROVE  /\ cur \in Requests /\ inflight = cur /\ Stage(cur) = "active"
         /\ submitter[cur] = "accepted" /\ host[cur] = None /\ cur \notin done
         /\ ~In(cur, requestQ)
<1>1. cur \in Requests /\ inflight = cur /\ task \notin {"check", "report", "push"}
  BY DEF Inv, BaseInv, TaskInv, Working
<1>2. PlaceOf(cur)
  BY <1>1 DEF Inv, PlaceInv
<1>. QED BY <1>1, <1>2 DEF PlaceOf, Stage, ServedStage

LEMMA InsertIsInsert == ASSUME Inv, NEW r \in Requests, InsertInput(r) PROVE Step
<1>. USE DEF Inv, BaseInv, queueVars, lifeVars, workerVars
<1>0. /\ insertQ \in Seq(Requests) /\ insertQ' = Append(insertQ, r)
      /\ submitter[r] = "try" /\ submitter' = [submitter EXCEPT ![r] = "accepted"]
      /\ host' = [host EXCEPT ![r] = inflight]
      /\ UNCHANGED <<done, absorbed, requestQ, cur, stopRequested, task>>
  BY DEF InsertInput, TypeOK
<1>1. \A s : In(s, insertQ') <=> In(s, insertQ) \/ s = r
  BY <1>0, InAppended
<1>2. /\ submitter'[r] = "accepted" /\ host'[r] = inflight
      /\ \A s \in Requests : s # r => submitter'[s] = submitter[s] /\ host'[s] = host[s]
  BY <1>0 DEF TypeOK
<1>3. PlaceOf(r)
  BY DEF PlaceInv
<1>4. task \in Working /\ inflight # None
  BY DEF InsertInput, Insertable, TaskInv
<1>5. Stage(r) = "new" /\ Stage(r)' = "waiting"
  BY <1>0, <1>1, <1>2, <1>3, <1>4 DEF Stage, InsertedStage, PlaceOf
<1>6. \A s \in Requests : s # r => SameStage(s)
  BY <1>0, <1>1, <1>2 DEF SameStage
<1>7. Status' = [Status EXCEPT ![r] = "waiting"]
  BY <1>5, <1>6, OneMoves
<1>8. inflight \in Requests /\ Stage(inflight) = "active"
  BY <1>4, ActiveOne
<1>9. SessionOf[r] = SessionOf[inflight] /\ SessionOf[r] # NoSession
  BY DEF InsertInput, Insertable
<1>10. Lifecycle!Insert(r, inflight)
  BY <1>0, <1>5, <1>7, <1>8, <1>9 DEF Lifecycle!Insert, Status, Queued
<1>11. PlaceInv'
  <2>1. \A s \in Requests : PlaceOf(s)'
    <3>. SUFFICES ASSUME NEW s \in Requests PROVE PlaceOf(s)'
      OBVIOUS
    <3>1. CASE s = r
      BY <1>0, <1>1, <1>2, <1>3, <1>4, <3>1 DEF PlaceOf
    <3>2. CASE s # r
      BY <1>6, <3>2, PlaceStays DEF PlaceInv
    <3>. QED BY <3>1, <3>2
  <2>. QED BY <1>0, <2>1 DEF PlaceInv, QueuedOnce
<1>. QED BY <1>8, <1>10, <1>11 DEF Step, Lifecycle!Next

LEMMA SubmittersStep == ASSUME Inv, Submitters PROVE Step
<1>. PICK r \in Requests :
       \/ Submit(r) \/ InsertInput(r) \/ RefuseInput(r) \/ FallThrough(r)
       \/ SendRequest(r) \/ SendTimeout(r)
  BY DEF Submitters
<1>. USE DEF queueVars, lifeVars, workerVars, sharedVars, historyVars
<1>1. CASE Submit(r)
  <2>1. CASE ~started
    BY <1>1, <2>1, Rejected DEF Submit
  <2>2. CASE started
    BY <1>1, <2>2, Passed DEF Submit
  <2>. QED BY <2>1, <2>2
<1>2. CASE InsertInput(r)
  BY <1>2, InsertIsInsert
<1>3. CASE RefuseInput(r)
  BY <1>3, Rejected DEF RefuseInput
<1>4. CASE FallThrough(r)
  BY <1>4, Passed DEF FallThrough
<1>5. CASE SendRequest(r)
  BY <1>5, SendIsAccept
<1>6. CASE SendTimeout(r)
  BY <1>6, Rejected DEF SendTimeout
<1>. QED BY <1>1, <1>2, <1>3, <1>4, <1>5, <1>6

-----------------------------------------------------------------------------
(* Starting, cancelling, stopping.                                          *)

LEMMA ControllersStep ==
  ASSUME Inv, Start \/ Canceller \/ Stopper \/ TakeResponse PROVE Step
<1>. USE DEF queueVars, lifeVars, workerVars, sharedVars, historyVars
<1>1. CASE StopBegin
  <2>1. \A r \in Requests : SameStage(r)
    BY <1>1 DEF StopBegin, SameStage
  <2>2. Status' = Status /\ PlaceInv'
    BY <1>1, <2>1, StageStays, PlaceStays DEF Status, StopBegin, Inv, PlaceInv, QueuedOnce
  <2>3. Lifecycle!Stop
    BY <1>1, <2>2 DEF StopBegin, Lifecycle!Stop, Status, Queued
  <2>. QED BY <2>2, <2>3 DEF Step, Lifecycle!Next
<1>2. CASE StopWake
  <2>1. stopRequested /\ requestQ \in Seq(Requests \cup {Wake}) /\ Wake \notin Requests
    BY <1>2, CoreAssumption DEF StopWake, Inv, BaseInv, WakeInv, TypeOK
  <2>2. \A r \in Requests : In(r, requestQ') <=> In(r, requestQ)
    BY <1>2, <2>1, InAppended DEF StopWake
  <2>3. \A r \in Requests : SameStage(r)
    BY <1>2, <2>2 DEF StopWake, SameStage
  <2>4. Status' = Status /\ \A r \in Requests : PlaceOf(r)'
    BY <2>3, StageStays, PlaceStays DEF Status, Inv, PlaceInv
  <2>5. QueuedOnce'
    <3>1. requestQ' = requestQ \/ requestQ' = Append(requestQ, Wake)
      BY <1>2 DEF StopWake
    <3>2. \A n \in DOMAIN requestQ' : \/ n \in DOMAIN requestQ /\ requestQ'[n] = requestQ[n]
                                      \/ requestQ'[n] = Wake
      BY <2>1, <3>1
    <3>. QED BY <2>1, <3>2 DEF QueuedOnce, Inv, PlaceInv
  <2>6. UNCHANGED Lifecycle!vars
    BY <1>2, <2>1, <2>4 DEF StopWake, Lifecycle!vars, Status, Queued
  <2>. QED BY <2>4, <2>5, <2>6 DEF Step, PlaceInv
<1>3. CASE Start
  <2>1. task = "off" /\ cur = None
    BY <1>3 DEF Start, Inv, BaseInv, TaskInv
  <2>. QED BY <1>3, <2>1, Moving, UnseenStutters DEF Start, Inside, Step, Inv
<1>4. CASE Canceller \/ StopCancel \/ StopReturn \/ TakeResponse
  <2>1. Unseen
    BY <1>4, Moving
    DEF Canceller, CancelRequest, ArmCancel, StopCancel, StopReturn, TakeResponse
  <2>. QED BY <2>1, UnseenStutters DEF Step, Inv
<1>. QED BY <1>1, <1>2, <1>3, <1>4 DEF Stopper

-----------------------------------------------------------------------------
(* The worker.                                                              *)

LEMMA ReceiveUnseen == ASSUME Inv, Receive PROVE Step
<1>. DEFINE h == Head(requestQ)
<1>. USE DEF Inv, BaseInv, queueVars, lifeVars, sharedVars, historyVars
<1>0. /\ requestQ \in Seq(Requests \cup {Wake}) /\ requestQ # <<>> /\ requestQ' = Tail(requestQ)
      /\ cur' = h /\ cur = None /\ task = "recv" /\ task' = "check"
      /\ h \in Requests \cup {Wake} /\ requestQ = <<h>> \o Tail(requestQ)
      /\ UNCHANGED <<submitter, host, done, absorbed, insertQ, stopRequested>>
  BY DEF Receive, Goto, TypeOK, TaskInv
<1>. HIDE DEF h
<1>1. \A r : In(r, requestQ) <=> r = h \/ In(r, requestQ')
  BY <1>0, InHeadOrTail DEF h
<1>2. h \in Requests => ~In(h, requestQ')
  BY <1>0, HeadIsGone DEF PlaceInv, h
<1>3. \A r \in Requests : r # h => SameStage(r)
  BY <1>0, <1>1, CoreAssumption DEF SameStage
<1>4. ASSUME NEW r \in Requests, r = h PROVE Stage(r)' = Stage(r) /\ PlaceOf(r)'
  <2>1. PlaceOf(r) /\ In(r, requestQ) /\ ~In(r, requestQ') /\ cur' = r /\ cur # r
    BY <1>0, <1>1, <1>2, <1>4, CoreAssumption DEF PlaceInv
  <2>2. submitter[r] = "accepted" /\ host[r] = None /\ r \notin done
    BY <2>1 DEF PlaceOf
  <2>3. Stage(r) = "queued"
    BY <2>1, <2>2 DEF Stage, ServedStage
  <2>4. Stage(r)' = "queued"
    BY <1>0, <2>1, <2>2 DEF Stage, ServedStage
  <2>. QED BY <1>0, <2>1, <2>2, <2>3, <2>4 DEF PlaceOf
<1>5. Status' = Status
  BY <1>3, <1>4, StageStays DEF Status
<1>6. ASSUME NEW r \in Requests PROVE PlaceOf(r)'
  BY <1>3, <1>4, PlaceStays DEF PlaceInv
<1>7. QueuedOnce'
  <2>1. \A n \in DOMAIN requestQ' : n + 1 \in DOMAIN requestQ /\ requestQ'[n] = requestQ[n + 1] /\ n \in Nat
    BY <1>0
  <2>. QED BY <2>1 DEF QueuedOnce, PlaceInv
<1>8. Queued' = Queued
  BY <1>0 DEF Queued
<1>. QED BY <1>0, <1>5, <1>6, <1>7, <1>8 DEF Step, PlaceInv, Lifecycle!vars, Status

LEMMA CheckIsServe == ASSUME Inv, CheckStop PROVE Step
<1>. USE DEF Inv, BaseInv, queueVars, lifeVars, sharedVars, historyVars
<1>0. /\ task = "check" /\ cur \in Requests \cup {Wake} /\ requestQ \in Seq(Requests \cup {Wake})
      /\ UNCHANGED <<submitter, host, done, absorbed, requestQ, insertQ, stopRequested>>
  BY DEF CheckStop, TaskInv, TypeOK
<1>1. cur \in Requests => /\ PlaceOf(cur) /\ submitter[cur] = "accepted" /\ host[cur] = None
                          /\ cur \notin done /\ ~In(cur, requestQ) /\ Stage(cur) = "queued"
  BY <1>0 DEF PlaceInv, PlaceOf, Stage, ServedStage
<1>2. CASE ~stopRequested
  <2>1. cur \in Requests /\ task' = "begin" /\ cur' = cur
    BY <1>0, <1>2 DEF CheckStop, WakeInv
  <2>2. Stage(cur)' = "active"
    BY <1>0, <1>1, <2>1 DEF Stage, ServedStage
  <2>3. \A r \in Requests : r # cur => SameStage(r)
    BY <1>0, <2>1 DEF SameStage
  <2>4. Status' = [Status EXCEPT ![cur] = "active"]
    BY <2>1, <2>2, <2>3, OneMoves
  <2>5. \A r \in Requests : Stage(r) \notin {"active", "replying"}
    BY <1>0 DEF Stage, ServedStage, InsertedStage
  <2>6. /\ Queued # <<>> /\ Head(Queued) = cur /\ Queued' = Tail(Queued)
    <3>1. Queued = <<cur>> \o requestQ /\ Queued' = requestQ
      BY <1>0, <1>2, <2>1 DEF Queued
    <3>. QED BY <1>0, <3>1
  <2>7. Lifecycle!Serve
    BY <1>0, <1>2, <2>4, <2>5, <2>6 DEF Lifecycle!Serve, Status
  <2>8. PlaceInv'
    BY <1>0, <2>1 DEF PlaceInv, PlaceOf, QueuedOnce
  <2>. QED BY <2>7, <2>8 DEF Step, Lifecycle!Next
<1>3. CASE stopRequested
  <2>1. task' = "exit" /\ cur' = None
    BY <1>3 DEF CheckStop
  <2>2. Queued = <<>> /\ Queued' = <<>>
    BY <1>0, <1>3 DEF Queued
  <2>3. \A r \in Requests : r # cur => SameStage(r)
    BY <1>0, <2>1, CoreAssumption DEF SameStage
  <2>4. PlaceInv'
    BY <1>0, <2>1, CoreAssumption DEF PlaceInv, PlaceOf, QueuedOnce
  <2>5. CASE cur \in Requests
    <3>1. Stage(cur)' # "queued" => TRUE
      OBVIOUS
    <3>2. \A c : c = cur /\ c \in Requests => Stage(c)' = "discarded"
      BY <1>0, <1>1, <2>1, CoreAssumption DEF Stage, ServedStage
    <3>3. PICK c \in Requests : c = cur
      BY <2>5
    <3>4. Status' = [Status EXCEPT ![c] = "discarded"]
      BY <2>3, <3>2, <3>3, OneMoves
    <3>5. Lifecycle!Discard(c)
      BY <1>0, <1>1, <1>3, <2>2, <3>3, <3>4 DEF Lifecycle!Discard, Status
    <3>. QED BY <2>4, <3>5 DEF Step, Lifecycle!Next
  <2>6. CASE cur \notin Requests
    <3>1. Status' = Status
      BY <2>3, <2>6, StageStays DEF Status
    <3>. QED BY <1>0, <2>2, <2>4, <3>1 DEF Step, Lifecycle!vars, Status
  <2>. QED BY <2>5, <2>6
<1>. QED BY <1>2, <1>3

(* The inputs that wait for the request in flight are those in the insert   *)
(* queue.                                                                   *)
LEMMA WaitingAre ==
  ASSUME Inv, task \in Working
  PROVE  Lifecycle!Waiting(cur) = {r \in Requests : In(r, insertQ)}
<1>1. cur \in Requests /\ inflight = cur /\ cur # None
  BY ActiveOne, CoreAssumption
<1>2. ASSUME NEW r \in Requests, In(r, insertQ) PROVE Stage(r) = "waiting" /\ host[r] = cur
  <2>1. PlaceOf(r) /\ host[r] = cur
    BY <1>1, <1>2 DEF Inv, PlaceInv, BaseInv, InputsBelongToInflight, In
  <2>. QED BY <1>1, <1>2, <2>1 DEF PlaceOf, Stage, InsertedStage
<1>3. ASSUME NEW r \in Requests, Stage(r) = "waiting" PROVE In(r, insertQ)
  BY <1>3 DEF Stage, ServedStage, InsertedStage
<1>. QED BY <1>2, <1>3 DEF Lifecycle!Waiting

(* All that wait move to x, and the request in flight to y.                 *)
LEMMA AllMove ==
  ASSUME Inv, task \in Working, NEW x, NEW y,
         \A r \in Requests : r # cur /\ ~In(r, insertQ) => SameStage(r),
         \A r \in Requests : r # cur /\ In(r, insertQ) => Stage(r)' = x,
         \A r \in Requests : r = cur => Stage(r)' = y
  PROVE  Lifecycle!Move(Lifecycle!Waiting(cur), x, cur, y)
<1>1. \A r \in Requests : Stage(r)' = IF r = cur THEN y
                                      ELSE IF r \in Lifecycle!Waiting(cur) THEN x ELSE Stage(r)
  BY WaitingAre, StageStays
<1>. QED BY <1>1 DEF Lifecycle!Move

LEMMA DrainIsAbsorb == ASSUME Inv, NEW p \in DOMAIN AfterDrain, DrainSome(p) PROVE Step
<1>. USE DEF Inv, BaseInv, queueVars, lifeVars
<1>0. task \in Working /\ task = p /\ task' = "clear" /\ task \notin {"check", "report", "push"}
  BY DEF DrainSome, Goto, AfterDrain, Working
<1>1. cur \in Requests /\ inflight = cur /\ Stage(cur) = "active"
  BY <1>0, ActiveOne
<1>2. Drainable = Len(insertQ) /\ insertQ \in Seq(Requests) /\ Len(insertQ) > 0
  BY <1>1, DrainsAll DEF DrainSome, TypeOK
<1>3. insertQ' = <<>> /\ \A r : r \in absorbed' <=> r \in absorbed \/ In(r, insertQ)
  BY <1>2 DEF DrainSome, In
<1>4. UNCHANGED <<submitter, host, done, requestQ, cur, stopRequested>>
  BY DEF DrainSome
<1>5. \A r \in Requests : In(r, insertQ) => r # cur /\ Stage(r)' = "absorbed"
  <2>. SUFFICES ASSUME NEW r \in Requests, In(r, insertQ)
                PROVE  r # cur /\ Stage(r)' = "absorbed"
    OBVIOUS
  <2>1. PlaceOf(r)
    BY DEF PlaceInv
  <2>. QED BY <1>3, <1>4, <2>1 DEF PlaceOf, Stage, InsertedStage
<1>6. \A r \in Requests : ~In(r, insertQ) => SameStage(r)
  BY <1>0, <1>3, <1>4, InEmpty DEF SameStage
<1>7. \A r \in Requests : r = cur => Stage(r)' = "active"
  BY <1>1, <1>5, <1>6, StageStays
<1>8. Lifecycle!Move(Lifecycle!Waiting(cur), "absorbed", cur, "active")
  BY <1>0, <1>5, <1>6, <1>7, AllMove
<1>9. Lifecycle!Waiting(cur) # {}
  <2>1. 1 \in DOMAIN insertQ /\ insertQ[1] \in Requests
    BY <1>2
  <2>2. In(insertQ[1], insertQ)
    BY <2>1 DEF In
  <2>. QED BY <1>0, <2>1, <2>2, WaitingAre
<1>10. Lifecycle!Absorb(cur)
  BY <1>0, <1>1, <1>4, <1>8, <1>9 DEF Lifecycle!Absorb, Queued
<1>11. PlaceInv'
  <2>1. \A r \in Requests : PlaceOf(r)'
    <3>. SUFFICES ASSUME NEW r \in Requests PROVE PlaceOf(r)'
      OBVIOUS
    <3>1. PlaceOf(r)
      BY DEF PlaceInv
    <3>. QED BY <1>3, <1>4, <3>1, InEmpty DEF PlaceOf
  <2>. QED BY <1>4, <2>1 DEF PlaceInv, QueuedOnce
<1>. QED BY <1>1, <1>10, <1>11 DEF Step, Lifecycle!Next

LEMMA ReleaseIsRelease == ASSUME Inv, Release PROVE Step
<1>. USE DEF Inv, BaseInv, queueVars, lifeVars
<1>0. task \in Working /\ task = "release" /\ task' = "report"
  BY DEF Release, Goto, Working
<1>1. /\ cur \in Requests /\ inflight = cur /\ Stage(cur) = "active"
      /\ submitter[cur] = "accepted" /\ host[cur] = None /\ cur \notin done /\ ~In(cur, requestQ)
  BY <1>0, ActiveOne
<1>2. insertQ' = <<>> /\ UNCHANGED <<submitter, host, done, absorbed, requestQ, cur, stopRequested>>
  BY DEF Release, historyVars
<1>3. \A r \in Requests : In(r, insertQ) => r # cur /\ Stage(r)' = "dropped"
  <2>. SUFFICES ASSUME NEW r \in Requests, In(r, insertQ)
                PROVE  r # cur /\ Stage(r)' = "dropped"
    OBVIOUS
  <2>1. PlaceOf(r)
    BY DEF PlaceInv
  <2>. QED BY <1>2, <2>1, InEmpty DEF PlaceOf, Stage, InsertedStage
<1>4. \A r \in Requests : r # cur /\ ~In(r, insertQ) => SameStage(r)
  BY <1>2, InEmpty DEF SameStage
<1>5. \A r \in Requests : r = cur => Stage(r)' = "replying"
  BY <1>0, <1>1, <1>2 DEF Stage, ServedStage
<1>6. Lifecycle!Move(Lifecycle!Waiting(cur), "dropped", cur, "replying")
  BY <1>0, <1>3, <1>4, <1>5, AllMove
<1>7. Lifecycle!Release(cur)
  BY <1>0, <1>1, <1>2, <1>6 DEF Lifecycle!Release, Queued
<1>8. PlaceInv'
  <2>1. \A r \in Requests : PlaceOf(r)'
    <3>. SUFFICES ASSUME NEW r \in Requests PROVE PlaceOf(r)'
      OBVIOUS
    <3>1. PlaceOf(r)
      BY DEF PlaceInv
    <3>. QED BY <1>2, <3>1, InEmpty DEF PlaceOf
  <2>. QED BY <1>2, <2>1 DEF PlaceInv, QueuedOnce
<1>. QED BY <1>1, <1>7, <1>8 DEF Step, Lifecycle!Next

(* The response is dropped or handed over.                                  *)
LEMMA EndIsAnswer ==
  ASSUME Inv, task \in {"report", "push"}, task' = "loop", EndRequest,
         UNCHANGED <<submitter, host, absorbed, requestQ, insertQ, stopRequested>>
  PROVE  Step
<1>. USE DEF Inv, BaseInv
<1>0. cur \in Requests /\ cur' = None /\ done' = done \cup {cur}
  BY DEF EndRequest, TaskInv
<1>. PICK c \in Requests : c = cur
  BY <1>0
<1>1. submitter[c] = "accepted" /\ host[c] = None /\ c \notin done /\ ~In(c, requestQ)
  BY <1>0 DEF PlaceInv, PlaceOf
<1>2. Stage(c) = "replying"
  BY <1>1 DEF Stage, ServedStage
<1>3. Stage(c)' = "done"
  BY <1>0, <1>1 DEF Stage, ServedStage
<1>4. \A r \in Requests : r # c => SameStage(r)
  BY <1>0, CoreAssumption DEF SameStage
<1>5. Status' = [Status EXCEPT ![c] = "done"]
  BY <1>3, <1>4, OneMoves
<1>6. Lifecycle!Answer(c)
  BY <1>2, <1>5 DEF Lifecycle!Answer, Status, Queued
<1>7. PlaceInv'
  <2>1. \A r \in Requests : PlaceOf(r)'
    <3>. SUFFICES ASSUME NEW r \in Requests PROVE PlaceOf(r)'
      OBVIOUS
    <3>1. PlaceOf(r) /\ r # None
      BY CoreAssumption DEF PlaceInv
    <3>. QED BY <1>0, <1>1, <3>1 DEF PlaceOf
  <2>. QED BY <2>1 DEF PlaceInv, QueuedOnce
<1>. QED BY <1>6, <1>7 DEF Step, Lifecycle!Next

LEMMA WorkerStep == ASSUME Inv, Worker PROVE Step
<1>. USE DEF queueVars, lifeVars, sharedVars, historyVars, Goto, Skip
<1>1. CASE Receive
  BY <1>1, ReceiveUnseen
<1>2. CASE CheckStop
  BY <1>2, CheckIsServe
<1>3. CASE Drain
  <2>1. ASSUME NEW p \in DOMAIN AfterDrain, DrainSome(p) PROVE Step
    BY <2>1, DrainIsAbsorb
  <2>2. ASSUME NEW p \in DOMAIN AfterDrain, DrainNone(p) PROVE Step
    <3>1. Inside(task) /\ Inside(task')
      BY <2>2 DEF DrainNone, AfterDrain, Inside
    <3>. QED BY <2>2, <3>1, Moving, UnseenStutters DEF DrainNone, Step, Inv
  <2>. QED BY <1>3, <2>1, <2>2 DEF Drain
<1>4. CASE Release
  BY <1>4, ReleaseIsRelease
<1>5. CASE Report
  <2>1. CASE cur \in Skipping
    BY <1>5, <2>1, EndIsAnswer DEF Report
  <2>2. CASE cur \notin Skipping
    BY <1>5, <2>2, Moving, UnseenStutters DEF Report, Step, Inv
  <2>. QED BY <2>1, <2>2
<1>6. CASE Push
  BY <1>6, EndIsAnswer DEF Push
<1>7. CASE Begin
  <2>1. insertQ = <<>>
    BY <1>7 DEF Begin, Inv, BaseInv, TaskInv, Working, InputsBelongToInflight
  <2>. QED BY <1>7, <2>1, Moving, UnseenStutters DEF Begin, Inside, Step, Inv
<1>8. CASE \/ Loop \/ Gate \/ StartRequest \/ Iterate \/ ClearInterrupt \/ EnterBuild \/ Build
           \/ EnterHttp \/ Chat \/ TakeAbort \/ Answered \/ Complete \/ ToolCalls \/ EnterTool
           \/ Tool \/ Finish \/ Exit
  <2>1. Inside(task) /\ Inside(task')
    BY <1>8 DEF Loop, Gate, StartRequest, Iterate, ClearInterrupt, EnterBuild, Build, EnterHttp,
       Chat, TakeAbort, Answered, Complete, ToolCalls, EnterTool, Tool, Finish, Exit, SetPhase,
       FinishAs, Inside
  <2>2. UNCHANGED <<submitter, host, done, absorbed, requestQ, insertQ, cur, stopRequested>>
    BY <1>8 DEF Loop, Gate, StartRequest, Iterate, ClearInterrupt, EnterBuild, Build, EnterHttp,
       Chat, TakeAbort, Answered, Complete, ToolCalls, EnterTool, Tool, Finish, Exit, SetPhase,
       FinishAs
  <2>. QED BY <2>1, <2>2, Moving, UnseenStutters DEF Step, Inv
<1>. QED BY <1>1, <1>2, <1>3, <1>4, <1>5, <1>6, <1>7, <1>8 DEF Worker

-----------------------------------------------------------------------------
LEMMA InitMaps == Init => PlaceInv /\ Lifecycle!Init
<1>. SUFFICES ASSUME Init PROVE PlaceInv /\ Lifecycle!Init
  OBVIOUS
<1>1. PlaceInv
  BY CoreAssumption DEF Init, PlaceInv, PlaceOf, QueuedOnce, In
<1>2. Lifecycle!Init
  BY DEF Init, Lifecycle!Init, Stage, Queued
<1>. QED BY <1>1, <1>2

LEMMA NextMaps == Inv /\ [Next]_vars => Step
<1>. SUFFICES ASSUME Inv, [Next]_vars PROVE Step
  OBVIOUS
<1>1. CASE Submitters
  BY <1>1, SubmittersStep
<1>2. CASE Start \/ Canceller \/ Stopper \/ TakeResponse
  BY <1>2, ControllersStep
<1>3. CASE Worker
  BY <1>3, WorkerStep
<1>4. CASE UNCHANGED vars
  BY <1>4, Moving, UnseenStutters
  DEF vars, lifeVars, queueVars, sharedVars, workerVars, historyVars, Step, Inv
<1>. QED BY <1>1, <1>2, <1>3, <1>4 DEF Next

(* A request is at one place only, from its submission to its answer        *)
(* (claw_core_messages.c:88-250, claw_core_agent_loop.c:103-143, 447-498).  *)
THEOREM PlacesAreOne == Spec => []PlaceInv
<1>1. Init => PlaceInv
  BY InitMaps
<1>2. BaseInv /\ PlaceInv /\ [Next]_vars => PlaceInv'
  BY NextMaps DEF Step, Inv
<1>. QED BY <1>1, <1>2, BaseInvariant, PTL DEF Spec

(* Every behaviour of the core is one the lifecycle allows, whatever the    *)
(* requests, sessions, flags and lengths of the queues: requests are served *)
(* in order and one at a time, inserted inputs are absorbed together by     *)
(* their own request or dropped when it is over, and nothing is served      *)
(* after a stop (claw_core_messages.c:157-250, claw_core_agent_loop.c:103-  *)
(* 143 and 447-498).                                                        *)
THEOREM CoreImplementsLifecycle == Spec => LifecycleSpec
<1>1. Init => Lifecycle!Init
  BY InitMaps
<1>2. BaseInv /\ PlaceInv /\ [Next]_vars => [Lifecycle!Next]_(Lifecycle!vars)
  BY NextMaps DEF Step, Inv
<1>. QED BY <1>1, <1>2, BaseInvariant, PlacesAreOne, PTL DEF Spec, LifecycleSpec, Lifecycle!Spec
=============================================================================
