-------------------------- MODULE RequestLifecycle --------------------------
(***************************************************************************)
(* What claw_core promises about the requests submitted to it, without its *)
(* queues' bounds, its phases, its locks or its abort flag: an accepted    *)
(* request is served in the order of acceptance, one at a time; an input   *)
(* accepted into a request under way is made part of its conversation      *)
(* together with all others waiting, and is dropped only when that request *)
(* is over; after a stop nothing is served, and what is queued stays where *)
(* it is or is discarded.                                                  *)
(***************************************************************************)
EXTENDS Naturals, Sequences

CONSTANTS Requests, NoSession, SessionOf, None

VARIABLES
  status,    \* how far each request has come
  queue,     \* accepted requests that will be served, the oldest first
  host,      \* the request an input was inserted into
  stopping

vars == <<status, queue, host, stopping>>

Stages == {"new", "rejected", "queued", "waiting", "absorbed", "dropped",
           "active", "replying", "done", "discarded"}

Init ==
  /\ status = [r \in Requests |-> "new"]
  /\ queue = <<>>
  /\ host = [r \in Requests |-> None]
  /\ stopping = FALSE

Waiting(h) == {r \in Requests : status[r] = "waiting" /\ host[r] = h}

\* Everything of S moves to one stage, and h to another.
Move(S, stage, h, next) ==
  status' = [r \in Requests |->
               IF r = h THEN next ELSE IF r \in S THEN stage ELSE status[r]]

Reject(r) ==
  /\ status[r] = "new"
  /\ status' = [status EXCEPT ![r] = "rejected"]
  /\ UNCHANGED <<queue, host, stopping>>

Accept(r) ==
  /\ status[r] = "new"
  /\ status' = [status EXCEPT ![r] = "queued"]
  /\ queue' = IF stopping THEN queue ELSE Append(queue, r)
  /\ UNCHANGED <<host, stopping>>

Insert(r, h) ==
  /\ status[r] = "new" /\ status[h] = "active"
  /\ SessionOf[r] = SessionOf[h] /\ SessionOf[r] # NoSession
  /\ status' = [status EXCEPT ![r] = "waiting"]
  /\ host' = [host EXCEPT ![r] = h]
  /\ UNCHANGED <<queue, stopping>>

Serve ==
  /\ ~stopping /\ queue # <<>>
  /\ \A r \in Requests : status[r] \notin {"active", "replying"}
  /\ status' = [status EXCEPT ![Head(queue)] = "active"]
  /\ queue' = Tail(queue)
  /\ UNCHANGED <<host, stopping>>

Discard(r) ==
  /\ stopping /\ status[r] = "queued"
  /\ status' = [status EXCEPT ![r] = "discarded"]
  /\ UNCHANGED <<queue, host, stopping>>

Absorb(h) ==
  /\ status[h] = "active" /\ Waiting(h) # {}
  /\ Move(Waiting(h), "absorbed", h, "active")
  /\ UNCHANGED <<queue, host, stopping>>

Release(h) ==
  /\ status[h] = "active"
  /\ Move(Waiting(h), "dropped", h, "replying")
  /\ UNCHANGED <<queue, host, stopping>>

Answer(h) ==
  /\ status[h] = "replying"
  /\ status' = [status EXCEPT ![h] = "done"]
  /\ UNCHANGED <<queue, host, stopping>>

Stop ==
  /\ stopping' = TRUE /\ queue' = <<>>
  /\ UNCHANGED <<status, host>>

Next ==
  \/ \E r \in Requests :
       Reject(r) \/ Accept(r) \/ Discard(r) \/ Absorb(r) \/ Release(r) \/ Answer(r)
  \/ \E r, h \in Requests : Insert(r, h)
  \/ Serve \/ Stop

Spec == Init /\ [][Next]_vars
=============================================================================
