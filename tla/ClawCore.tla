------------------------------ MODULE ClawCore ------------------------------
(***************************************************************************)
(* One claw_core instance: the worker task that turns a submitted request  *)
(* into rounds of "build context, ask the LLM, run the tools it calls",    *)
(* the callers that submit requests while it runs, the caller that cancels *)
(* and the caller that stops it.                                           *)
(*                                                                         *)
(* The state behind inflight_lock (inflight request, phase, abort reason,  *)
(* insert queue) is read and written by all of them.  Each critical        *)
(* section of that lock, and each FreeRTOS queue operation, is one action; *)
(* what the task does between two of them on its own data belongs to the   *)
(* next one.  A request is an element of Requests, with its session and    *)
(* its flags given by constants; request texts, LLM answers, tool results  *)
(* and persisted records are abstracted to the facts the properties use.   *)
(* Exhaustion of the heap is not modelled.                                 *)
(***************************************************************************)
EXTENDS Naturals, Sequences

CONSTANTS
  Requests,           \* claw_core_request_t values, one submission each
  Sessions,           \* session identifiers
  NoSession,          \* a request whose session_id is NULL or empty
  SessionOf,          \* session_id of each request
  Interrupting,       \* requests with CLAW_CORE_REQUEST_FLAG_USER_INTERRUPT
  Skipping,           \* requests with CLAW_CORE_REQUEST_FLAG_SKIP_RESPONSE_QUEUE
  RequestQueueLen,    \* config.request_queue_len
  ResponseQueueLen,   \* config.response_queue_len
  InsertQueueLen,     \* CLAW_CORE_INSERT_QUEUE_LEN
  MaxToolIterations,  \* config.max_tool_iterations
  None,               \* request id 0: nothing in flight, or "any" to a cancel
  Wake                \* the zeroed item by which stop wakes the task

ASSUME CoreAssumption ==
  /\ NoSession \notin Sessions
  /\ SessionOf \in [Requests -> Sessions \cup {NoSession}]
  /\ Interrupting \subseteq Requests
  /\ Skipping \subseteq Requests
  /\ None \notin Requests
  /\ Wake \notin Requests
  /\ None # Wake
  /\ RequestQueueLen \in Nat \ {0}
  /\ ResponseQueueLen \in Nat \ {0}
  /\ InsertQueueLen \in Nat \ {0}
  /\ MaxToolIterations \in Nat \ {0}

VARIABLES
  started,        \* core->started
  stopRequested,  \* core->stop_requested
  requestQ,       \* core->request_queue
  responseQ,      \* core->response_queue
  inflight,       \* core->inflight_request_id (its session: SessionOf)
  phase,          \* core->agent_loop_phase
  abort,          \* core->inflight_abort_reason; inflight_abort is abort # "none"
  insertQ,        \* core->insert_queue
  task,           \* where the worker task is
  cur,            \* the worker's local request item
  iteration,      \* the worker's tool rounds of this request
  outcome,        \* what the worker's local response holds
  turn,           \* batches of this request handed to persist_context
  submitter,      \* where the submitting call of each request is
  stopper,        \* where the stopping call is
  absorbed,       \* history: inputs whose text was drained into a request
  host,           \* history: the request an inserted input was accepted for
  done,           \* history: requests whose response was pushed, or skipped
  cancelled       \* history: a cancel was armed before the answer was in

lifeVars    == <<started, stopRequested, stopper>>
queueVars   == <<requestQ, responseQ>>
sharedVars  == <<inflight, phase, abort, insertQ>>
workerVars  == <<task, cur, iteration, outcome, turn>>
historyVars == <<absorbed, host, done, cancelled>>
vars == <<lifeVars, queueVars, sharedVars, workerVars, submitter, historyVars>>

Phases == {"idle", "before_build", "building", "before_llm_http",
           "in_llm_http", "after_llm_before_tool", "running_tool",
           "finalizing"}

\* The worker between the two critical sections that set and clear inflight.
Working == {"gate", "start", "iterate", "drainBuild", "enterBuild", "build",
            "drainHttp", "enterHttp", "chat", "takeAbort", "drainAbort",
            "clear", "answered", "complete", "toolCalls", "drainTool",
            "enterTool", "tool", "finish", "release"}

WorkerPlaces == Working \cup {"off", "loop", "recv", "check", "begin",
                                     "report", "push", "exit"}

\* "blank" is a response with neither a text nor an error message.
Outcomes == {"none", "notice", "answer", "failed", "cancelled", "blank"}

Init ==
  /\ started = FALSE /\ stopRequested = FALSE /\ stopper = "none"
  /\ requestQ = <<>> /\ responseQ = <<>>
  /\ inflight = None /\ phase = "idle" /\ abort = "none" /\ insertQ = <<>>
  /\ task = "off" /\ cur = None /\ iteration = 0 /\ outcome = "none" /\ turn = <<>>
  /\ submitter = [r \in Requests |-> "new"]
  /\ absorbed = {} /\ host = [r \in Requests |-> None] /\ done = {}
  /\ cancelled = FALSE

-----------------------------------------------------------------------------
(* Submitting: claw_core_ingress_submit.                                    *)

\* A call is refused outright before the core is started or after it stopped.
Submit(r) ==
  /\ submitter[r] = "new"
  /\ submitter' = [submitter EXCEPT ![r] =
        IF ~started THEN "rejected"
        ELSE IF r \in Interrupting THEN "try" ELSE "send"]
  /\ UNCHANGED <<lifeVars, queueVars, sharedVars, workerVars, historyVars>>

\* claw_core_agent_loop_phase_is_insertable, and the session test before it.
Insertable(r) ==
  /\ inflight # None
  /\ SessionOf[r] # NoSession
  /\ SessionOf[inflight] = SessionOf[r]
  /\ phase \notin {"idle", "finalizing"}

\* Faulty variant: the interrupt overwrites a cancel.
ArmInterruptOverCancel ==
  abort' = IF phase = "in_llm_http" THEN "user_interrupt" ELSE abort

\* An input accepted while the HTTP request is out asks for its abort, unless
\* the abort is already a cancel.
ArmInterrupt ==
  abort' = IF phase = "in_llm_http" /\ abort # "cancel"
           THEN "user_interrupt" ELSE abort

InsertInput(r) ==
  /\ submitter[r] = "try"
  /\ Insertable(r)
  /\ Len(insertQ) < InsertQueueLen
  /\ insertQ' = Append(insertQ, r)
  /\ host' = [host EXCEPT ![r] = inflight]
  /\ ArmInterrupt
  /\ submitter' = [submitter EXCEPT ![r] = "accepted"]
  /\ UNCHANGED <<lifeVars, queueVars, inflight, phase, workerVars,
                 absorbed, done, cancelled>>

\* The insert queue is full, or inflight_lock was not free for 200 ms.
RefuseInput(r) ==
  /\ submitter[r] = "try"
  /\ submitter' = [submitter EXCEPT ![r] = "rejected"]
  /\ UNCHANGED <<lifeVars, queueVars, sharedVars, workerVars, historyVars>>

\* Nothing of this session can take the input: it is submitted as a request.
FallThrough(r) ==
  /\ submitter[r] = "try"
  /\ ~Insertable(r)
  /\ submitter' = [submitter EXCEPT ![r] = "send"]
  /\ UNCHANGED <<lifeVars, queueVars, sharedVars, workerVars, historyVars>>

SendRequest(r) ==
  /\ submitter[r] = "send"
  /\ Len(requestQ) < RequestQueueLen
  /\ requestQ' = Append(requestQ, r)
  /\ submitter' = [submitter EXCEPT ![r] = "accepted"]
  /\ UNCHANGED <<lifeVars, responseQ, sharedVars, workerVars, historyVars>>

SendTimeout(r) ==
  /\ submitter[r] = "send"
  /\ Len(requestQ) = RequestQueueLen
  /\ submitter' = [submitter EXCEPT ![r] = "rejected"]
  /\ UNCHANGED <<lifeVars, queueVars, sharedVars, workerVars, historyVars>>

-----------------------------------------------------------------------------
(* Cancelling: claw_core_control_cancel_request.                            *)

\* The request named, or any when it is None, is the one in flight.
CancelMatches(r) == inflight # None /\ r \in {None, inflight}

\* Once the answer has come back from the transport a cancel is too late.
ArmCancel ==
  /\ abort' = "cancel"
  /\ cancelled' = (cancelled \/ task \notin {"answered", "complete", "finish", "release"})

CancelRequest(r) ==
  /\ CancelMatches(r)
  /\ ArmCancel
  /\ UNCHANGED <<lifeVars, queueVars, inflight, phase, insertQ, workerVars,
                 submitter, absorbed, host, done>>

-----------------------------------------------------------------------------
(* Starting and stopping: claw_core_start, claw_core_stop.  The only caller *)
(* of claw_core_start (claw_agent_mgr) does so once, right after create.    *)

Start ==
  /\ ~started /\ ~stopRequested
  /\ started' = TRUE
  /\ task' = "loop"
  /\ UNCHANGED <<stopRequested, stopper, queueVars, sharedVars, cur, iteration,
                 outcome, turn, submitter, historyVars>>

\* Called again after a timeout: close, then delete, then destroy of an agent.
StopBegin ==
  /\ stopper \in {"none", "timeout"} /\ started
  /\ stopRequested' = TRUE
  /\ stopper' = "cancel"
  /\ UNCHANGED <<started, queueVars, sharedVars, workerVars, submitter, historyVars>>

\* The result is ignored, so a lock timeout and NOT_FOUND leave nothing armed.
StopCancel ==
  /\ stopper = "cancel"
  /\ stopper' = "wake"
  /\ \/ CancelMatches(None) /\ ArmCancel
     \/ UNCHANGED <<abort, cancelled>>
  /\ UNCHANGED <<started, stopRequested, queueVars, inflight, phase, insertQ,
                 workerVars, submitter, absorbed, host, done>>

\* Faulty variant: the stop relies on the cancel alone to reach the task.
StopNoWake ==
  /\ stopper = "wake"
  /\ stopper' = "wait"
  /\ UNCHANGED <<started, stopRequested, queueVars, sharedVars, workerVars,
                 submitter, historyVars>>

\* The wake item is sent without waiting and is lost when the queue is full.
StopWake ==
  /\ stopper = "wake"
  /\ stopper' = "wait"
  /\ requestQ' = IF Len(requestQ) < RequestQueueLen
                 THEN Append(requestQ, Wake) ELSE requestQ
  /\ UNCHANGED <<started, stopRequested, responseQ, sharedVars, workerVars,
                 submitter, historyVars>>

\* started is polled until the deadline.
StopReturn ==
  /\ stopper = "wait"
  /\ stopper' = IF started THEN "timeout" ELSE "ok"
  /\ UNCHANGED <<started, stopRequested, queueVars, sharedVars, workerVars,
                 submitter, historyVars>>

-----------------------------------------------------------------------------
(* The worker task: claw_core_agent_loop_task.                              *)

Goto(p, q) == task = p /\ task' = q

\* A step that only moves the task.
Skip == UNCHANGED <<lifeVars, queueVars, sharedVars, cur, iteration, outcome,
                    turn, submitter, historyVars>>

\* claw_core_control_set_phase between two stretches of the task.
SetPhase(p, ph, q) ==
  /\ Goto(p, q)
  /\ phase' = ph
  /\ UNCHANGED <<lifeVars, queueVars, inflight, abort, insertQ, cur, iteration,
                 outcome, turn, submitter, historyVars>>

\* A goto finish_request, or the end of the loop, with what the response holds.
FinishAs(p, o) ==
  /\ Goto(p, "finish")
  /\ outcome' = o
  /\ UNCHANGED <<lifeVars, queueVars, sharedVars, cur, iteration, turn,
                 submitter, historyVars>>

\* A batch goes to the persist callback only when the request has a session.
Persisted(batch) ==
  IF SessionOf[cur] = NoSession THEN turn ELSE Append(turn, batch)

Loop ==
  /\ Goto("loop", IF stopRequested THEN "exit" ELSE "recv")
  /\ Skip

Receive ==
  /\ Goto("recv", "check")
  /\ requestQ # <<>>
  /\ cur' = Head(requestQ)
  /\ requestQ' = Tail(requestQ)
  /\ UNCHANGED <<lifeVars, responseQ, sharedVars, iteration, outcome, turn,
                 submitter, historyVars>>

\* Faulty variant: the flag is not read again after the wait.
CheckNothing ==
  /\ Goto("check", "begin")
  /\ Skip

\* An item received after a stop is freed unanswered.
CheckStop ==
  /\ task = "check"
  /\ IF stopRequested
     THEN task' = "exit" /\ cur' = None
     ELSE task' = "begin" /\ UNCHANGED cur
  /\ UNCHANGED <<lifeVars, queueVars, sharedVars, iteration, outcome, turn,
                 submitter, historyVars>>

Begin ==
  /\ Goto("begin", "gate")
  /\ inflight' = cur /\ phase' = "before_build" /\ abort' = "none"
  /\ insertQ' = <<>>
  /\ iteration' = 0 /\ outcome' = "none" /\ turn' = <<>>
  /\ cancelled' = FALSE
  /\ UNCHANGED <<lifeVars, queueVars, cur, submitter, absorbed, host, done>>

\* The LLM is not configured, or the request gate refuses the request: with a
\* message that is a successful answer, without one it is a failure.
Gate ==
  \/ Goto("gate", "start") /\ Skip
  \/ FinishAs("gate", "notice")
  \/ FinishAs("gate", "failed")

\* The request's own text is persisted; collecting its contexts may then fail.
StartRequest ==
  /\ task = "start"
  /\ turn' = Persisted("user")
  /\ \/ task' = "iterate" /\ UNCHANGED outcome
     \/ task' = "finish" /\ outcome' = "failed"
  /\ UNCHANGED <<lifeVars, queueVars, sharedVars, cur, iteration, submitter,
                 historyVars>>

Iterate == SetPhase("iterate", "before_build", "drainBuild")

\* How many inputs from the front of the insert queue are of cur's session.
Drainable ==
  CHOOSE n \in 0..Len(insertQ) :
    /\ \A i \in 1..n : SessionOf[insertQ[i]] = SessionOf[cur]
    /\ n < Len(insertQ) => SessionOf[insertQ[n + 1]] # SessionOf[cur]

\* Faulty variant: a drain takes only the first input.
DrainFirst(p) ==
  /\ Goto(p, "clear")
  /\ SessionOf[cur] # NoSession /\ Drainable > 0
  /\ absorbed' = absorbed \cup {Head(insertQ)}
  /\ insertQ' = Tail(insertQ)
  /\ UNCHANGED <<lifeVars, queueVars, inflight, phase, abort, cur, iteration,
                 outcome, turn, submitter, host, done, cancelled>>

\* claw_core_ingress_dequeue_inserted_user_inputs at one of its four places.
DrainSome(p) ==
  /\ Goto(p, "clear")
  /\ SessionOf[cur] # NoSession /\ Drainable > 0
  /\ absorbed' = absorbed \cup {insertQ[i] : i \in 1..Drainable}
  /\ insertQ' = SubSeq(insertQ, Drainable + 1, Len(insertQ))
  /\ UNCHANGED <<lifeVars, queueVars, inflight, phase, abort, cur, iteration,
                 outcome, turn, submitter, host, done, cancelled>>

NothingToDrain == SessionOf[cur] = NoSession \/ Drainable = 0

\* Where each drain goes on when it takes nothing.
AfterDrain == [drainBuild |-> "enterBuild", drainHttp |-> "enterHttp",
               drainTool |-> "enterTool", drainAbort |-> "finish"]

\* After an abort that had no input to drain, the request ends with err ESP_OK,
\* without a text and without an error message.
DrainNone(p) ==
  /\ Goto(p, AfterDrain[p])
  /\ NothingToDrain
  /\ outcome' = IF p = "drainAbort" THEN "blank" ELSE outcome
  /\ UNCHANGED <<lifeVars, queueVars, sharedVars, cur, iteration, turn,
                 submitter, historyVars>>

Drain == \E p \in DOMAIN AfterDrain : DrainSome(p) \/ DrainNone(p)

\* Faulty variant: a drain withdraws any abort.
ClearAnyAbort ==
  /\ Goto("clear", "iterate")
  /\ abort' = "none"
  /\ turn' = Persisted("user")
  /\ UNCHANGED <<lifeVars, queueVars, inflight, phase, insertQ, cur, iteration,
                 outcome, submitter, historyVars>>

\* Faulty variant: a drain leaves the abort of the inputs it took armed.
ClearNoAbort ==
  /\ Goto("clear", "iterate")
  /\ turn' = Persisted("user")
  /\ UNCHANGED <<lifeVars, queueVars, sharedVars, cur, iteration, outcome,
                 submitter, historyVars>>

\* After a drain: its abort is withdrawn, the texts are persisted and appended
\* to the conversation, and the iteration starts over.
ClearInterrupt ==
  /\ Goto("clear", "iterate")
  /\ abort' = IF abort = "user_interrupt" THEN "none" ELSE abort
  /\ turn' = Persisted("user")
  /\ UNCHANGED <<lifeVars, queueVars, inflight, phase, insertQ, cur, iteration,
                 outcome, submitter, historyVars>>

EnterBuild == SetPhase("enterBuild", "building", "build")

Build ==
  \/ SetPhase("build", "before_llm_http", "drainHttp")
  \/ FinishAs("build", "failed")

EnterHttp == SetPhase("enterHttp", "in_llm_http", "chat")

\* Faulty variant: the transport does not look at the abort flag.
ChatNoAbort ==
  \/ Goto("chat", "takeAbort") /\ Skip
  \/ \E q \in {"answered", "toolCalls"} : Goto("chat", q) /\ Skip

\* claw_core_llm_chat_messages.  It may fail at any time; the transport reads
\* the abort flag after the HTTP exchange and fails when it is set.
Chat ==
  \/ Goto("chat", "takeAbort") /\ Skip
  \/ /\ abort = "none"
     /\ \E q \in {"answered", "toolCalls"} : Goto("chat", q)
     /\ Skip

\* Faulty variant: any abort of the HTTP request is taken for an interrupt.
TakeAnyAbort ==
  /\ task = "takeAbort"
  /\ IF abort # "none"
     THEN task' = "drainAbort" /\ abort' = "none" /\ UNCHANGED outcome
     ELSE task' = "finish" /\ outcome' = "failed" /\ UNCHANGED abort
  /\ UNCHANGED <<lifeVars, queueVars, inflight, phase, insertQ, cur, iteration,
                 turn, submitter, historyVars>>

\* claw_core_control_take_user_interrupt_http_abort after a failed chat.
TakeAbort ==
  /\ task = "takeAbort"
  /\ IF abort = "user_interrupt"
     THEN task' = "drainAbort" /\ abort' = "none" /\ UNCHANGED outcome
     ELSE task' = "finish" /\ outcome' = "failed" /\ UNCHANGED abort
  /\ UNCHANGED <<lifeVars, queueVars, inflight, phase, insertQ, cur, iteration,
                 turn, submitter, historyVars>>

Answered == SetPhase("answered", "finalizing", "complete")

\* The answer is persisted and the completion observers are told of it.
Complete ==
  /\ Goto("complete", "finish")
  /\ outcome' = "answer"
  /\ turn' = Persisted("final")
  /\ UNCHANGED <<lifeVars, queueVars, sharedVars, cur, iteration, submitter,
                 historyVars>>

ToolCalls == SetPhase("toolCalls", "after_llm_before_tool", "drainTool")

EnterTool == SetPhase("enterTool", "running_tool", "tool")

\* Faulty variant: after the tool calls the loop starts over at once, without
\* persisting or counting the round.
ToolUncounted ==
  \/ FinishAs("tool", "failed")
  \/ Goto("tool", "iterate") /\ Skip

\* Faulty variant: one round of tool calls too many.
ToolOneTooMany ==
  \/ FinishAs("tool", "failed")
  \/ /\ task = "tool"
     /\ turn' = Persisted("tool")
     /\ iteration' = iteration + 1
     /\ IF iteration' > MaxToolIterations
        THEN task' = "finish" /\ outcome' = "failed"
        ELSE task' = "iterate" /\ UNCHANGED outcome
     /\ UNCHANGED <<lifeVars, queueVars, sharedVars, cur, submitter, historyVars>>

\* The tool calls run and their round is persisted; the last round allowed
\* fails the request.
Tool ==
  \/ FinishAs("tool", "failed")
  \/ /\ task = "tool"
     /\ turn' = Persisted("tool")
     /\ iteration' = iteration + 1
     /\ IF iteration' >= MaxToolIterations
        THEN task' = "finish" /\ outcome' = "failed"
        ELSE task' = "iterate" /\ UNCHANGED outcome
     /\ UNCHANGED <<lifeVars, queueVars, sharedVars, cur, submitter, historyVars>>

Finish == SetPhase("finish", "finalizing", "release")

\* Faulty variant: what is left in the insert queue stays there.
ReleaseKeepingInputs ==
  /\ Goto("release", "report")
  /\ inflight' = None /\ phase' = "idle" /\ abort' = "none"
  /\ outcome' = IF abort = "cancel" /\ outcome = "failed" THEN "cancelled" ELSE outcome
  /\ UNCHANGED <<lifeVars, queueVars, insertQ, cur, iteration, turn, submitter,
                 historyVars>>

\* Inputs still in the insert queue are freed with the request they were for.
Release ==
  /\ Goto("release", "report")
  /\ inflight' = None /\ phase' = "idle" /\ abort' = "none" /\ insertQ' = <<>>
  /\ outcome' = IF abort = "cancel" /\ outcome = "failed" THEN "cancelled" ELSE outcome
  /\ UNCHANGED <<lifeVars, queueVars, cur, iteration, turn, submitter,
                 historyVars>>

\* The response is dropped or handed over, and the request item is freed.
EndRequest ==
  /\ done' = done \cup {cur}
  /\ cur' = None /\ iteration' = 0 /\ outcome' = "none"

\* Faulty variant: only a request that failed by itself closes its turn.
ReportNoCancelNote ==
  /\ task = "report"
  /\ turn' = IF outcome = "failed" THEN Persisted("final") ELSE turn
  /\ IF cur \in Skipping
     THEN task' = "loop" /\ EndRequest
     ELSE task' = "push" /\ UNCHANGED <<cur, iteration, outcome, done>>
  /\ UNCHANGED <<lifeVars, queueVars, sharedVars, submitter, absorbed, host,
                 cancelled>>

\* A failed request closes its turn with a failure note; then the response goes
\* to the event router, if asked for, and to the response queue unless skipped.
Report ==
  /\ task = "report"
  /\ turn' = IF outcome \in {"failed", "cancelled"} THEN Persisted("final") ELSE turn
  /\ IF cur \in Skipping
     THEN task' = "loop" /\ EndRequest
     ELSE task' = "push" /\ UNCHANGED <<cur, iteration, outcome, done>>
  /\ UNCHANGED <<lifeVars, queueVars, sharedVars, submitter, absorbed, host,
                 cancelled>>

\* claw_core_response_push waits as long as the response queue is full.
Push ==
  /\ Goto("push", "loop")
  /\ Len(responseQ) < ResponseQueueLen
  /\ responseQ' = Append(responseQ, cur)
  /\ EndRequest
  /\ UNCHANGED <<lifeVars, requestQ, sharedVars, turn, submitter, absorbed,
                 host, cancelled>>

Exit ==
  /\ Goto("exit", "off")
  /\ started' = FALSE
  /\ UNCHANGED <<stopRequested, stopper, queueVars, sharedVars, cur, iteration,
                 outcome, turn, submitter, historyVars>>

Worker ==
  \/ Loop \/ Receive \/ CheckStop \/ Begin \/ Gate \/ StartRequest \/ Iterate \/ Drain
  \/ ClearInterrupt \/ EnterBuild \/ Build \/ EnterHttp \/ Chat \/ TakeAbort
  \/ Answered \/ Complete \/ ToolCalls \/ EnterTool \/ Tool \/ Finish
  \/ Release \/ Report \/ Push \/ Exit

\* claw_core_response_receive_for takes an item from the response queue.
TakeResponse ==
  /\ responseQ # <<>>
  /\ responseQ' = Tail(responseQ)
  /\ UNCHANGED <<lifeVars, requestQ, sharedVars, workerVars, submitter, historyVars>>

-----------------------------------------------------------------------------
Submitters ==
  \E r \in Requests :
    \/ Submit(r) \/ InsertInput(r) \/ RefuseInput(r) \/ FallThrough(r)
    \/ SendRequest(r) \/ SendTimeout(r)

Canceller == \E r \in Requests \cup {None} : CancelRequest(r)

Stopper == StopBegin \/ StopCancel \/ StopWake \/ StopReturn

Next == Start \/ Submitters \/ Canceller \/ Stopper \/ Worker \/ TakeResponse

\* The task keeps running: the LLM answers or times out, tools and callbacks
\* return.  A stop that has begun goes on, and somebody receives responses.
Fairness ==
  /\ WF_vars(Worker)
  /\ WF_vars(StopCancel) /\ WF_vars(StopWake)
  /\ WF_vars(TakeResponse)

Spec == Init /\ [][Next]_vars /\ Fairness

-----------------------------------------------------------------------------
(* Properties.                                                              *)

TypeOK ==
  /\ started \in BOOLEAN /\ stopRequested \in BOOLEAN
  /\ stopper \in {"none", "cancel", "wake", "wait", "ok", "timeout"}
  /\ requestQ \in Seq(Requests \cup {Wake}) /\ Len(requestQ) <= RequestQueueLen
  /\ responseQ \in Seq(Requests) /\ Len(responseQ) <= ResponseQueueLen
  /\ inflight \in Requests \cup {None}
  /\ phase \in Phases
  /\ abort \in {"none", "cancel", "user_interrupt"}
  /\ insertQ \in Seq(Requests) /\ Len(insertQ) <= InsertQueueLen
  /\ task \in WorkerPlaces
  /\ cur \in Requests \cup {None, Wake}
  /\ iteration \in 0..MaxToolIterations
  /\ outcome \in Outcomes
  /\ turn \in Seq({"user", "tool", "final"})
  /\ submitter \in [Requests -> {"new", "try", "send", "accepted", "rejected"}]
  /\ absorbed \subseteq Requests
  /\ host \in [Requests -> Requests \cup {None}]
  /\ done \subseteq Requests
  /\ cancelled \in BOOLEAN

\* Between requests no abort and no input is left over for the next request;
\* during one, each waiting input was accepted for that very request and is of
\* its session, so a drain leaves nothing behind
\* (claw_core_agent_loop.c:129-143 and 449-458 against claw_core_messages.c:88-117).
InputsBelongToInflight ==
  /\ inflight = None => phase = "idle" /\ abort = "none" /\ insertQ = <<>>
  /\ \A i \in DOMAIN insertQ :
       /\ host[insertQ[i]] = inflight
       /\ SessionOf[insertQ[i]] = SessionOf[inflight]
       /\ SessionOf[inflight] # NoSession

\* An armed interrupt always has the input that asked for it waiting, but for
\* the moment between taking the inputs and withdrawing the abort: a chat is
\* never aborted for an input that is already in its conversation, and what
\* take_user_interrupt_http_abort consumes always has something to drain
\* (claw_core_control.c:26-63, claw_core_agent_loop.c:313-328).
InterruptAbortHasInput ==
  /\ abort = "user_interrupt" => insertQ # <<>> \/ task = "clear"
  /\ task = "drainAbort" => insertQ # <<>>

\* The zeroed item of a stop is never taken for a request
\* (claw_core.c:255-257 against claw_core_agent_loop.c:121-130).
WakeNotServed == cur = Wake => stopRequested /\ task = "check"

\* What is in flight is a request, with the inputs accepted for it and no others.
InflightIsClean == InputsBelongToInflight /\ WakeNotServed

\* No request ends without a text and without an error message, the case of an
\* aborted chat that finds nothing to drain (claw_core_agent_loop.c:310-329).
NoBlankOutcome == outcome # "blank"

\* A cancel once armed stays armed until the request it is for is released:
\* neither an inserted input nor a drain takes it back
\* (claw_core_messages.c:111-115, claw_core_control.c:57-61).
CancelSticky ==
  [][abort = "cancel" /\ inflight' = inflight => abort' = "cancel"]_vars

\* A cancel armed before the transport has handed over an answer keeps the
\* request from being answered, through any number of drains and restarts of
\* the iteration (claw_core_control.c:65-85, claw_llm_http_transport.c:343-360).
CancelPreventsAnswer == cancelled => outcome # "answer"

\* A cancel holds: no step takes it back, and it keeps the answer away
\* (claw_core_control.c:26-85).
CancelHolds == []CancelPreventsAnswer /\ CancelSticky

\* The batches persisted for a request close its turn once and last: whenever
\* the task is past a request, what it persisted ends in the final record, and
\* nothing follows a final record
\* (claw_core_agent_loop.c:419-429 and 466-491).
TurnClosed ==
  /\ \A i \in DOMAIN turn : turn[i] = "final" => i = Len(turn)
  /\ turn # <<>> /\ task \notin Working \cup {"report"} => turn[Len(turn)] = "final"

\* A stop ends the task: even when the cancel found no request and the wake
\* item was lost to a full queue, the task leaves its loop
\* (claw_core.c:255-259, claw_core_agent_loop.c:103-127).
StopExits == stopRequested ~> ~started

\* An accepted request is answered, or its turn to be served is cut off by a
\* stop: no exchange with the LLM, tool round or interrupt keeps the task busy
\* for ever (claw_core_agent_loop.c:241-417).
QueuedServed ==
  \A r \in Requests :
    (\E i \in DOMAIN requestQ : requestQ[i] = r) ~> (r \in done \/ stopRequested)
=============================================================================
