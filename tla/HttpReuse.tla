------------------------------- MODULE HttpReuse -------------------------------
(***************************************************************************)
(* The pool of HTTP clients of http_reuse.  Calls of esp_http_client_init, *)
(* perform and cleanup are diverted here by the linker; the model          *)
(* transport and the chat platforms call them from their own tasks.  A     *)
(* client whose connection is still open is kept after its cleanup and     *)
(* given to the next task that asks for the same host; the pool's mutex is *)
(* dropped around the calls of the real client, each action is one stretch *)
(* under it or one such call.  Every caller in the repository gives a URL. *)
(***************************************************************************)
EXTENDS Naturals, Sequences, FiniteSets, SequencesExt

CONSTANTS
  Users,        \* tasks that make requests
  Handles,      \* addresses of clients; a freed one is used again
  NoHandle,
  Hosts,        \* scheme, host and port
  NoHost,
  MaxPool,      \* CONFIG_HTTP_REUSE_MAX_POOL
  IdleTimeout   \* CONFIG_HTTP_REUSE_IDLE_TIMEOUT_SEC, in ticks of the model

HttpReuseAssumption ==
  /\ {MaxPool, IdleTimeout} \subseteq Nat \ {0}
  /\ NoHandle \notin Handles /\ NoHost \notin Hosts

VARIABLES
  at,       \* the clients that exist, and the host each is set to
  pool,     \* s_pool: a sequence of nodes
  leases,   \* s_leases: fresh clients handed out
  user      \* per task: what it is doing

vars == <<at, pool, leases, user>>

alive == DOMAIN at

\* `age' is the time since last_update_ticks.  A node is persistent from its
\* insertion on.
Node == [client : Handles, endpoint : Hosts, leased : BOOLEAN, reused : BOOLEAN,
         age : 0..IdleTimeout]
Lease == [client : Handles, performed : BOOLEAN]

\* `asked' is the host of a request that is not sent yet, `again' counts the
\* requests sent once more.
Resting == [pc |-> "idle", h |-> NoHandle, asked |-> NoHost, hit |-> FALSE, again |-> 0,
            open |-> FALSE]

Init ==
  /\ at = <<>>
  /\ pool = <<>>
  /\ leases = {}
  /\ user = [u \in Users |-> Resting]

-----------------------------------------------------------------------------
(* The pool, under its mutex.                                               *)

Clients(nodes) == {nodes[i].client : i \in DOMAIN nodes}
Where(nodes, h) == CHOOSE i \in DOMAIN nodes : nodes[i].client = h
Expired(node) == ~node.leased /\ node.age >= IdleTimeout

\* The nodes at some of the places, in order.
Picked(nodes, places) ==
  [k \in 1..Cardinality(places) |->
     nodes[CHOOSE i \in places : Cardinality({j \in places : j <= i}) = k]]

\* Faulty variant: a client that is in use is reaped as well.
ReapedAny(nodes) == Picked(nodes, {i \in DOMAIN nodes : nodes[i].age < IdleTimeout})

\* What is left once the clients idle for too long are gone.
Reaped(nodes) == Picked(nodes, {i \in DOMAIN nodes : ~Expired(nodes[i])})

\* The places of a host's clients that wait for a user, in order.
Fitting(nodes, host) == {i \in DOMAIN nodes : ~nodes[i].leased /\ nodes[i].endpoint = host}

Least(S) == CHOOSE i \in S : \A j \in S : i <= j

\* The client that has been idle for longest; the first of several.
Oldest(nodes) ==
  LET idle == {i \in DOMAIN nodes : ~nodes[i].leased}
  IN  Least({i \in idle : \A j \in idle : nodes[j].age <= nodes[i].age})

\* Faulty variant: the oldest client goes, whoever uses it.
RoomForAny(nodes) ==
  IF Len(nodes) < MaxPool THEN nodes ELSE RemoveAt(nodes, 1)

\* Room for one more: the client idle for longest goes when the pool is full,
\* and nothing does when all are in use.
RoomFor(nodes) ==
  IF Len(nodes) < MaxPool \/ \A i \in DOMAIN nodes : nodes[i].leased
  THEN nodes ELSE RemoveAt(nodes, Oldest(nodes))

Without(f, gone) == [h \in DOMAIN f \ gone |-> f[h]]

\* Clients that leave the pool are destroyed.
PoolBecomes(nodes, destroyed) ==
  /\ pool' = nodes
  /\ at' = Without(at, (Clients(pool) \ Clients(nodes)) \cup destroyed)

Becomes(u, r) == user' = [user EXCEPT ![u] = r]
At(u, pc) == user[u].pc = pc
Goto(u, pc) == Becomes(u, [user[u] EXCEPT !.pc = pc])

-----------------------------------------------------------------------------
(* __wrap_esp_http_client_init                                              *)

Created(u, host, pc) ==
  \E h \in Handles \ alive :
    /\ at' = [x \in alive \cup {h} |-> IF x = h THEN host ELSE at[x]]
    /\ Becomes(u, [Resting EXCEPT !.pc = pc, !.h = h, !.asked = host])

\* A caller without keep_alive, or a URL that does not parse, has nothing to
\* do with the pool.
InitBypass(u) ==
  /\ At(u, "idle")
  /\ \E host \in Hosts : Created(u, host, "ready")
  /\ UNCHANGED <<pool, leases>>

\* Faulty variant: a client that is handed out is not marked as such.
HandedOutUnmarked(node) == [node EXCEPT !.reused = TRUE, !.age = 0]

HandedOut(node) == [node EXCEPT !.leased = TRUE, !.reused = TRUE, !.age = 0]

\* The first client of the host is taken, unless it has an error pending: then
\* it is dropped and the search ends.
PoolTake(u) ==
  /\ At(u, "idle")
  /\ \E host \in Hosts :
       LET nodes == Reaped(pool)
           fits == Fitting(nodes, host)
           i == Least(fits)
       IN  IF fits = {}
           THEN /\ PoolBecomes(nodes, {})
                /\ Becomes(u, [Resting EXCEPT !.pc = "miss", !.asked = host])
           ELSE \/ /\ PoolBecomes([nodes EXCEPT ![i] = HandedOut(@)], {})
                   /\ Becomes(u, [Resting EXCEPT !.pc = "hit", !.asked = host, !.hit = TRUE,
                                                 !.h = nodes[i].client])
                \/ /\ PoolBecomes(RemoveAt(nodes, i), {})
                   /\ Becomes(u, [Resting EXCEPT !.pc = "miss", !.asked = host])
  /\ UNCHANGED leases

\* Faulty variant: the URL is left as the last user had it.
SetUrlSkipped(u) ==
  /\ At(u, "hit")
  /\ Goto(u, "ready")
  /\ UNCHANGED <<at, pool, leases>>

\* The client is pointed at the new URL; a redirection may have left it at
\* another host.
SetUrl(u) ==
  /\ At(u, "hit")
  /\ at' = [at EXCEPT ![user[u].h] = user[u].asked]
  /\ Goto(u, "ready")
  /\ UNCHANGED <<pool, leases>>

\* The URL is refused: the client is destroyed and the caller gets nothing.
SetUrlFails(u) ==
  /\ At(u, "hit")
  /\ PoolBecomes(RemoveAt(pool, Where(pool, user[u].h)), {})
  /\ Becomes(u, Resting)
  /\ UNCHANGED leases

InitReal(u) ==
  /\ At(u, "miss")
  /\ \/ Created(u, user[u].asked, "new")
     \/ Becomes(u, Resting) /\ UNCHANGED at
  /\ UNCHANGED <<pool, leases>>

\* A fresh client is noted as handed out, unless there is no memory for it.
LeaseInsert(u) ==
  /\ At(u, "new")
  /\ \/ leases' = leases \cup {[client |-> user[u].h, performed |-> FALSE]}
     \/ UNCHANGED leases
  /\ Goto(u, "ready")
  /\ UNCHANGED <<at, pool>>

-----------------------------------------------------------------------------
(* __wrap_esp_http_client_perform                                           *)

PerformMarks(u) ==
  /\ At(u, "ready")
  /\ leases' = {[l EXCEPT !.performed = @ \/ l.client = user[u].h] : l \in leases}
  /\ Goto(u, "perform")
  /\ UNCHANGED <<at, pool>>

\* The request is sent; it may be redirected, succeed or fail, and leave the
\* connection open or closed.  The user goes on to `next' after a failure.
Sent(u, next, n) ==
  /\ \E host \in Hosts, open \in BOOLEAN, pc \in {"ready", next} :
       /\ at' = [at EXCEPT ![user[u].h] = host]
       /\ Becomes(u, [user[u] EXCEPT !.pc = pc, !.asked = NoHost, !.again = @ + n,
                                      !.open = open])
  /\ UNCHANGED <<pool, leases>>

PerformReal(u) == At(u, "perform") /\ Sent(u, "failed", 0)

IsReused(h) == h \in Clients(pool) /\ pool[Where(pool, h)].reused

\* Faulty variant: a client from the pool is tried again after every failure.
RetryAlways(u) ==
  /\ At(u, "failed")
  /\ Goto(u, IF IsReused(user[u].h) THEN "retry" ELSE "ready")
  /\ UNCHANGED <<at, pool, leases>>

\* A client from the pool gets a second try, once between init and cleanup.
RetryDecision(u) ==
  /\ At(u, "failed")
  /\ IF IsReused(user[u].h)
     THEN /\ pool' = [pool EXCEPT ![Where(pool, user[u].h)].reused = FALSE]
          /\ Goto(u, "retry")
     ELSE Goto(u, "ready") /\ UNCHANGED pool
  /\ UNCHANGED <<at, leases>>

\* The connection is closed and the request sent once more.
PerformAgain(u) == At(u, "retry") /\ Sent(u, "ready", 1)

-----------------------------------------------------------------------------
(* __wrap_esp_http_client_cleanup                                           *)

NotOf(h) == {l \in leases : l.client # h}

\* Faulty variant: the note that the client is handed out stays.
CleanupKeepsLease(u) ==
  LET h == user[u].h
      kept == user[u].open /\ [client |-> h, performed |-> TRUE] \in leases
  IN  /\ At(u, "ready") /\ h \notin Clients(pool)
      /\ IF kept THEN Goto(u, "insert") /\ UNCHANGED at
                 ELSE Becomes(u, Resting) /\ at' = Without(at, {h})
      /\ UNCHANGED <<pool, leases>>

\* A client from the pool goes back to it when its connection is open.
CleanupPooled(u) ==
  LET h == user[u].h
      i == Where(pool, h)
  IN  /\ At(u, "ready") /\ h \in Clients(pool)
      /\ leases' = NotOf(h)
      /\ IF user[u].open
         THEN PoolBecomes([pool EXCEPT ![i].leased = FALSE, ![i].reused = FALSE,
                                       ![i].age = 0], {})
         ELSE PoolBecomes(RemoveAt(pool, i), {})
      /\ Becomes(u, Resting)

\* Any other is kept if it was noted and has performed with success enough to
\* leave its connection open, and destroyed if not.
CleanupFresh(u) ==
  LET h == user[u].h
      kept == user[u].open /\ [client |-> h, performed |-> TRUE] \in leases
  IN  /\ At(u, "ready") /\ h \notin Clients(pool)
      /\ leases' = NotOf(h)
      /\ IF kept THEN Goto(u, "insert") /\ UNCHANGED at
                 ELSE Becomes(u, Resting) /\ at' = Without(at, {h})
      /\ UNCHANGED pool

\* The client enters the pool under the host it is at; it is destroyed when the
\* pool is full of clients in use or memory runs out.
PoolInsert(u) ==
  LET h == user[u].h
      nodes == RoomFor(Reaped(pool))
      node == [client |-> h, endpoint |-> at[h], leased |-> FALSE, reused |-> FALSE,
               age |-> 0]
  IN  /\ At(u, "insert")
      /\ \/ Len(nodes) < MaxPool /\ PoolBecomes(Append(nodes, node), {})
         \/ PoolBecomes(nodes, {h})
      /\ Becomes(u, Resting)
      /\ UNCHANGED leases

\* The URL of the client cannot be read or parsed.
EndpointUnknown(u) ==
  /\ At(u, "insert")
  /\ at' = Without(at, {user[u].h})
  /\ Becomes(u, Resting)
  /\ UNCHANGED <<pool, leases>>

-----------------------------------------------------------------------------
\* The timer's callback.
ReapIdle ==
  /\ \E i \in DOMAIN pool : Expired(pool[i])
  /\ PoolBecomes(Reaped(pool), {})
  /\ UNCHANGED <<leases, user>>

Tick ==
  /\ \E i \in DOMAIN pool : pool[i].age < IdleTimeout
  /\ pool' = [i \in DOMAIN pool |->
                [pool[i] EXCEPT !.age = IF @ < IdleTimeout THEN @ + 1 ELSE @]]
  /\ UNCHANGED <<at, leases, user>>

Next ==
  \/ \E u \in Users :
       \/ InitBypass(u) \/ PoolTake(u) \/ SetUrl(u) \/ SetUrlFails(u) \/ InitReal(u)
       \/ LeaseInsert(u)
       \/ PerformMarks(u) \/ PerformReal(u) \/ RetryDecision(u) \/ PerformAgain(u)
       \/ CleanupPooled(u) \/ CleanupFresh(u) \/ PoolInsert(u) \/ EndpointUnknown(u)
  \/ ReapIdle \/ Tick

Spec == Init /\ [][Next]_vars

-----------------------------------------------------------------------------
TypeOK ==
  /\ alive \subseteq Handles /\ at \in [alive -> Hosts]
  /\ pool \in Seq(Node)
  /\ leases \subseteq Lease
  /\ user \in [Users ->
       [pc : {"idle", "hit", "miss", "new", "ready", "perform", "failed", "retry", "insert"},
        h : Handles \cup {NoHandle}, asked : Hosts \cup {NoHost}, hit : BOOLEAN,
        again : Nat, open : BOOLEAN]]

Holders(h) == {u \in Users : user[u].h = h}

\* A client that a task or the pool has exists, no two tasks have the same one,
\* the pool lists none twice, counts one as handed out exactly while a task has
\* it, and never grows past its limit: no reaping, eviction or cleanup takes a
\* client from its user (esp_http_client_reuse.c:286, 444 and 656).
ClientsHaveOneOwner ==
  /\ \A u \in Users : user[u].h # NoHandle => user[u].h \in alive
  /\ \A h \in Handles : Cardinality(Holders(h)) <= 1
  /\ Clients(pool) \subseteq alive /\ Cardinality(Clients(pool)) = Len(pool)
  /\ \A i \in DOMAIN pool : pool[i].leased <=> Holders(pool[i].client) # {}
  /\ Len(pool) <= MaxPool

\* A client is noted as handed out only while a task has it, so that a client
\* made later at the same address, for a caller that wants no reuse, is not
\* taken for it (esp_http_client_reuse.c:404 and 671).
LeasesAreHeld == \A l \in leases : Holders(l.client) # {} /\ l.client \notin Clients(pool)

\* A caller's first request goes to the host it asked for, though the client
\* may have been redirected for an earlier one (esp_http_client_reuse.c:538).
GoesWhereAsked ==
  \A u \in Users :
    user[u].pc \in {"new", "ready", "perform"} /\ user[u].asked # NoHost =>
      at[user[u].h] = user[u].asked

\* No request is sent again but once between init and cleanup, and only on a
\* client from the pool (esp_http_client_reuse.c:636).
RetriedOnce ==
  \A u \in Users : user[u].again <= (IF user[u].hit THEN 1 ELSE 0)
=============================================================================
