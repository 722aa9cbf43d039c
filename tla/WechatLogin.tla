------------------------------- MODULE WechatLogin -------------------------------
(***************************************************************************)
(* The login to WeChat by QR code (cap_im_wechat.c): the pages of the      *)
(* configuration server start, cancel and watch a session, a task asks the *)
(* server what became of the code.  Session data is guarded by a mutex,    *)
(* except that the task fetches a code and writes what the server answers  *)
(* without it, and a stop of the gateway writes without it and frees both. *)
(* A start keeps the mutex while it fetches a code, longer than others     *)
(* wait for it.                                                            *)
(***************************************************************************)
EXTENDS Naturals, FiniteSets

CONSTANTS
  MaxCodes,      \* bound on the codes fetched
  MaxRefresh     \* CAP_IM_WECHAT_QR_MAX_REFRESH

LoginAssumption == {MaxCodes, MaxRefresh} \subseteq Nat \ {0}

VARIABLES
  qr,            \* s_wechat.qr
  lockedBy,      \* who holds the mutex
  starting,      \* qr_login_start is fetching a code
  qrTask,        \* where qr_task is
  qrHandle,      \* qr_task # NULL
  polledCode,    \* the code the poll in progress is about
  codeOf,        \* server, per code: the session it was fetched for
  confirmed,     \* server: codes scanned and confirmed
  stopWaiting,   \* gateway_stop waits for qr_task
  freed,         \* the state was freed with a task or a start still in it
  taskReused     \* history: the last start found the task of an earlier session

qrVars == <<qr, lockedBy, starting, qrTask, qrHandle, polledCode, codeOf, confirmed, stopWaiting,
            freed, taskReused>>
serverVars == <<codeOf, confirmed>>
others == <<stopWaiting, freed, taskReused>>

NoSession == [active |-> FALSE, completed |-> FALSE, stop |-> FALSE, code |-> 0, token |-> 0,
              session |-> 0, refresh |-> 0]

Init ==
  /\ qr = NoSession /\ lockedBy = "none" /\ starting = FALSE
  /\ qrTask = "none" /\ qrHandle = FALSE /\ polledCode = 0
  /\ codeOf = <<>> /\ confirmed = {}
  /\ stopWaiting = FALSE /\ freed = FALSE /\ taskReused = FALSE

\* Code that looks at the state once it is freed ends in a panic.
Sound == ~freed
Free == Sound /\ lockedBy = "none"

NewCode == Cardinality(DOMAIN codeOf) + 1
Fetched(session) == codeOf' = [c \in 1..NewCode |-> IF c = NewCode THEN session ELSE codeOf[c]]

-----------------------------------------------------------------------------
(* The pages of the configuration server.                                   *)

\* Faulty variant: what the last session left is kept.
SessionResetKeeps(session) == [qr EXCEPT !.active = TRUE, !.stop = FALSE, !.session = session,
                                         !.refresh = 0]

\* cap_im_wechat_qr_reset_locked and the start of a session
SessionReset(session) == [NoSession EXCEPT !.active = TRUE, !.session = session]

\* cap_im_wechat_qr_login_start, with or without force
LoginStart ==
  /\ Free
  /\ \E force \in BOOLEAN : ~qr.active \/ force
  /\ NewCode <= MaxCodes
  /\ qr' = SessionReset(NewCode)
  /\ lockedBy' = "start" /\ starting' = TRUE
  /\ taskReused' = qrHandle
  /\ UNCHANGED <<qrTask, qrHandle, polledCode, serverVars, stopWaiting, freed>>

\* The task of an earlier session, if it has not ended, goes on for this one.
LoginFetched ==
  /\ starting /\ Sound /\ NewCode <= MaxCodes
  /\ Fetched(qr.session)
  /\ starting' = FALSE /\ lockedBy' = "none"
  /\ IF qrHandle
     THEN qr' = [qr EXCEPT !.code = NewCode] /\ UNCHANGED <<qrHandle, qrTask>>
     ELSE \/ qr' = [qr EXCEPT !.code = NewCode] /\ qrHandle' = TRUE /\ qrTask' = "top"
          \/ qr' = [qr EXCEPT !.code = NewCode, !.active = FALSE] /\ UNCHANGED <<qrHandle, qrTask>>
  /\ UNCHANGED <<polledCode, confirmed, others>>

LoginFails ==
  /\ starting /\ Sound
  /\ qr' = [qr EXCEPT !.active = FALSE]
  /\ starting' = FALSE /\ lockedBy' = "none"
  /\ UNCHANGED <<qrTask, qrHandle, polledCode, serverVars, others>>

Cancel ==
  /\ Free
  /\ qr' = [qr EXCEPT !.stop = TRUE, !.active = FALSE]
  /\ UNCHANGED <<lockedBy, starting, qrTask, qrHandle, polledCode, serverVars, others>>

UserConfirms ==
  /\ \E c \in DOMAIN codeOf \ confirmed : confirmed' = confirmed \cup {c}
  /\ UNCHANGED <<qr, lockedBy, starting, qrTask, qrHandle, polledCode, codeOf, others>>

-----------------------------------------------------------------------------
(* cap_im_wechat_qr_task                                                    *)

TaskAt(from, to) == qrTask = from /\ qrTask' = to
KeepsLock == UNCHANGED <<lockedBy, starting, serverVars, others>>

\* The task clears its handle and unlocks; a stop may free the lock in between.
Ends(session) == /\ qr' = session /\ qrHandle' = FALSE /\ qrTask' = "unlocking"
                 /\ lockedBy' = "task"

QrTop ==
  /\ qrTask = "top" /\ Free
  /\ \/ (qr.stop \/ ~qr.active) /\ Ends(qr)
     \/ ~qr.stop /\ qr.active /\ TaskAt("top", "poll") /\ UNCHANGED <<qr, qrHandle, lockedBy>>
  /\ UNCHANGED <<starting, polledCode, serverVars, others>>

\* Faulty variant: the last refresh leaves the session active.
RefreshKeepsActive(from) ==
  IF qr.refresh + 1 >= MaxRefresh THEN Ends(qr)
  ELSE /\ qr' = [qr EXCEPT !.refresh = @ + 1]
       /\ TaskAt(from, "fetch") /\ UNCHANGED <<qrHandle, lockedBy>>

\* A code too old is replaced, a few times.
Refresh(from) ==
  IF qr.refresh + 1 >= MaxRefresh THEN Ends([qr EXCEPT !.active = FALSE])
  ELSE /\ qr' = [qr EXCEPT !.refresh = @ + 1]
       /\ TaskAt(from, "fetch") /\ UNCHANGED <<qrHandle, lockedBy>>

QrTooOld ==
  /\ qrTask = "top" /\ Free /\ ~qr.stop /\ qr.active
  /\ Refresh("top")
  /\ UNCHANGED <<starting, polledCode, serverVars, others>>

\* cap_im_wechat_qr_fetch_code_locked, called without the lock.
QrFetched ==
  /\ Sound /\ NewCode <= MaxCodes
  /\ TaskAt("fetch", "top")
  /\ Fetched(qr.session) /\ qr' = [qr EXCEPT !.code = NewCode]
  /\ UNCHANGED <<lockedBy, starting, qrHandle, polledCode, confirmed, others>>

\* Without the lock in time the task is gone, its handle is not.
QrFetchFails ==
  /\ Sound
  /\ \/ qrTask = "fetch" /\ lockedBy = "none" /\ Ends([qr EXCEPT !.active = FALSE])
     \/ TaskAt("fetch", "none") /\ lockedBy = "start" /\ UNCHANGED <<qr, qrHandle, lockedBy>>
  /\ UNCHANGED <<starting, polledCode, serverVars, others>>

\* cap_im_wechat_qr_poll_once_locked, also without the lock.
QrPoll ==
  /\ Sound
  /\ IF qr.active /\ qr.code # 0
     THEN TaskAt("poll", "polling") /\ polledCode' = qr.code
     ELSE TaskAt("poll", "failed") /\ UNCHANGED polledCode
  /\ UNCHANGED <<qr, qrHandle>> /\ KeepsLock

QrAnswer ==
  /\ Sound
  /\ \/ TaskAt("polling", "polled") /\ UNCHANGED qr
     \/ TaskAt("polling", "expired") /\ UNCHANGED qr
     \/ TaskAt("polling", "failed") /\ UNCHANGED qr
     \/ /\ polledCode \in confirmed /\ TaskAt("polling", "token")
        /\ qr' = [qr EXCEPT !.token = polledCode]
  /\ UNCHANGED <<polledCode, qrHandle>> /\ KeepsLock

QrCompletes ==
  /\ Sound /\ TaskAt("token", "completed")
  /\ qr' = [qr EXCEPT !.completed = TRUE]
  /\ UNCHANGED <<polledCode, qrHandle>> /\ KeepsLock

QrLeaves ==
  /\ Sound /\ TaskAt("completed", "polled")
  /\ qr' = [qr EXCEPT !.active = FALSE]
  /\ UNCHANGED <<polledCode, qrHandle>> /\ KeepsLock

QrAfterPoll ==
  /\ Free
  /\ \/ qrTask = "expired" /\ Refresh("expired")
     \/ TaskAt("failed", "break") /\ qr' = [qr EXCEPT !.active = FALSE]
        /\ UNCHANGED <<qrHandle, lockedBy>>
     \/ ~qr.active /\ TaskAt("polled", "break") /\ UNCHANGED <<qr, qrHandle, lockedBy>>
     \/ qr.active /\ TaskAt("polled", "top") /\ UNCHANGED <<qr, qrHandle, lockedBy>>
  /\ UNCHANGED <<starting, polledCode, serverVars, others>>

\* The lock is not got in time: what the poll returned is forgotten.
QrGivesUpLock ==
  /\ Sound /\ lockedBy = "start"
  /\ qrTask \in {"expired", "failed", "polled"} /\ qrTask' = "top"
  /\ UNCHANGED <<qr, qrHandle, polledCode>> /\ KeepsLock

\* A start may come before the handle is cleared, or keep the lock so long
\* that it never is.
QrBreaks ==
  /\ Sound /\ qrTask = "break"
  /\ \/ lockedBy = "none" /\ Ends(qr)
     \/ lockedBy = "start" /\ TaskAt("break", "none") /\ UNCHANGED <<qr, qrHandle, lockedBy>>
  /\ UNCHANGED <<starting, polledCode, serverVars, others>>

QrUnlocks ==
  /\ Sound /\ TaskAt("unlocking", "none")
  /\ lockedBy' = "none" /\ polledCode' = 0
  /\ UNCHANGED <<qr, starting, qrHandle, serverVars, others>>

-----------------------------------------------------------------------------
(* The gateway is stopped.                                                  *)

StopBegins ==
  /\ Sound /\ ~stopWaiting
  /\ qr' = [qr EXCEPT !.stop = TRUE, !.active = FALSE]
  /\ stopWaiting' = TRUE
  /\ UNCHANGED <<lockedBy, starting, qrTask, qrHandle, polledCode, serverVars, freed,
                 taskReused>>

StopTimesOut ==
  /\ stopWaiting /\ qrHandle
  /\ stopWaiting' = FALSE
  /\ UNCHANGED <<qr, lockedBy, starting, qrTask, qrHandle, polledCode, serverVars, freed,
                 taskReused>>

\* Faulty variant: the task is not waited for.
StopFreesEarly ==
  /\ stopWaiting
  /\ stopWaiting' = FALSE
  /\ freed' = (starting \/ qrTask # "none")
  /\ qr' = NoSession /\ lockedBy' = "none" /\ taskReused' = FALSE
  /\ UNCHANGED <<starting, qrTask, qrHandle, polledCode, serverVars>>

\* cap_im_wechat_free_state: the next user allocates a new state.
StopFrees ==
  /\ stopWaiting /\ ~qrHandle
  /\ stopWaiting' = FALSE
  /\ freed' = (starting \/ qrTask # "none")
  /\ qr' = NoSession /\ lockedBy' = "none" /\ taskReused' = FALSE
  /\ UNCHANGED <<starting, qrTask, qrHandle, polledCode, serverVars>>

\* A panic resets the device.
Panic ==
  /\ freed
  /\ qr' = NoSession /\ lockedBy' = "none" /\ starting' = FALSE
  /\ qrTask' = "none" /\ qrHandle' = FALSE /\ polledCode' = 0
  /\ stopWaiting' = FALSE /\ freed' = FALSE /\ taskReused' = FALSE
  /\ UNCHANGED serverVars

Next ==
  \/ LoginStart \/ LoginFetched \/ LoginFails \/ Cancel \/ UserConfirms
  \/ QrTop \/ QrTooOld \/ QrFetched \/ QrFetchFails \/ QrPoll \/ QrAnswer
  \/ QrCompletes \/ QrLeaves \/ QrAfterPoll \/ QrGivesUpLock \/ QrBreaks \/ QrUnlocks
  \/ StopBegins \/ StopTimesOut \/ StopFrees \/ Panic

Spec == Init /\ [][Next]_qrVars

-----------------------------------------------------------------------------
TypeOK ==
  /\ qr \in [active : BOOLEAN, completed : BOOLEAN, stop : BOOLEAN, code : 0..MaxCodes,
             token : 0..MaxCodes, session : 0..MaxCodes, refresh : 0..MaxRefresh]
  /\ lockedBy \in {"none", "start", "task"}
  /\ qrTask \in {"none", "top", "poll", "polling", "token", "completed", "polled", "expired",
                 "failed", "fetch", "break", "unlocking"}
  /\ DOMAIN codeOf \subseteq 1..MaxCodes /\ confirmed \subseteq DOMAIN codeOf
  /\ polledCode \in 0..MaxCodes
  /\ {starting, qrHandle, stopWaiting, freed, taskReused} \subseteq BOOLEAN

\* A session that is active has a task that asks for its code, unless its start
\* found the handle of an earlier task (cap_im_wechat.c:2389 and 2812).
ActiveIsPolled ==
  qr.active /\ ~starting /\ ~taskReused => qrTask \notin {"none", "unlocking"}

\* The token of a session is that of a code of this session, unless the task
\* was asking for an earlier one (cap_im_wechat.c:2689).
TokenIsOwn == ~taskReused /\ qr.token # 0 => codeOf[qr.token] = qr.session

\* The state is not freed under a task that asks or fetches (cap_im_wechat.c:2230).
StateOutlivesTask == freed => starting \/ qrTask = "unlocking"
=============================================================================
