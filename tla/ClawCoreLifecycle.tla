-------------------------- MODULE ClawCoreLifecycle -------------------------
(* claw_core implements RequestLifecycle: the refinement mapping.           *)
EXTENDS ClawCore

In(r, q) == \E i \in DOMAIN q : q[i] = r

\* A request accepted to be served is the lifecycle's active one from the check
\* after its receipt to the critical section that clears inflight.
ServedStage(r) ==
  IF r \in done THEN "done"
  ELSE IF In(r, requestQ) THEN "queued"
  ELSE IF cur # r THEN "discarded"
  ELSE IF task = "check" THEN "queued"
  ELSE IF task \in {"report", "push"} THEN "replying"
  ELSE "active"

InsertedStage(r) ==
  IF r \in absorbed THEN "absorbed" ELSE IF In(r, insertQ) THEN "waiting" ELSE "dropped"

Stage(r) ==
  IF submitter[r] = "rejected" THEN "rejected"
  ELSE IF submitter[r] # "accepted" THEN "new"
  ELSE IF host[r] = None THEN ServedStage(r)
  ELSE InsertedStage(r)

\* The item being checked is still at the head.  A wake item is in the queue
\* after a stop only, when nothing is served any more.
Queued ==
  IF stopRequested THEN <<>>
  ELSE IF task = "check" THEN <<cur>> \o requestQ
  ELSE requestQ

Lifecycle == INSTANCE RequestLifecycle
               WITH status   <- [r \in Requests |-> Stage(r)],
                    queue    <- Queued,
                    stopping <- stopRequested

\* Every behaviour of the core is one the lifecycle allows: requests are served
\* in order and one at a time, inserted inputs are absorbed together by their
\* own request or dropped when it is over, and nothing is served after a stop
\* (claw_core_messages.c:157-250, claw_core_agent_loop.c:103-143 and 447-498).
LifecycleSpec == Lifecycle!Spec
=============================================================================
