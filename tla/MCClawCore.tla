----------------------------- MODULE MCClawCore -----------------------------
(* Instances of ClawCore for TLC: up to four requests of two sessions. *)
EXTENDS ClawCoreLifecycle, TLC

CONSTANTS r1, r2, r3, r4, s1, s2

\* r1 and r2 plain and interrupting requests of s1, r3 an interrupting request
\* of s1 that skips the response queue, r4 one of the other session.
FourRequests == {r1, r2, r3, r4}
FourSessions == r1 :> s1 @@ r2 :> s1 @@ r3 :> s1 @@ r4 :> s2
FourInterrupting == {r2, r3, r4}

\* Three inputs of one session, two of which can wait in one insert queue, the
\* third skipping the response queue.
LineRequests == {r1, r2, r3}
LineSessions == [r \in LineRequests |-> s1]
LineInterrupting == {r2, r3}

MCSessions == {s1, s2}
SkippingOne == {r3}
=============================================================================
