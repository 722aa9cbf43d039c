# Verification of esp32-ClawBot

TLA+ models of the concurrent and the persistent parts of esp32-ClawBot, an agent runtime
for ESP32 boards, the TLC configurations that check them and proofs the TLA+ proof system
checks. Paths and line numbers are those of the repository.

A module is checked with `tlc -config X.cfg MCModule.tla`, a module of proofs with
`tlapm Module_proofs.tla`. PROJECT.json holds the runs, the faulty variants of the code
that each property catches, the lines every definition models, the hazards and
the theorems.

## 1. The system

A message arrives from a chat platform, the web page or the console. The gateway
publishes it as an *event*; the *event router* matches it against rules and
usually submits it to the *root agent*. An agent is a *core* (one task): it builds
a context, asks an LLM, executes the *capabilities* the LLM calls, and goes on
until the LLM answers with text. The answer is published as an event again and a
rule sends it to the platform. The root agent may spawn *subagents*, cores of their
own whose last word is submitted to the root agent. Conversations are kept in the
*session history* on flash.

```
 gateways, web, console --publish--> event router --submit--> agent manager --> root core
        ^                              |     ^                     |   ^           |
        |                  rules, call |     | answers (publish)   |   | reports   | calls
        +------- capabilities <--------+     +---------------------+---+---- subagent cores
                       ^                                                           |
                       +------------------- calls, history -----------------------+
```

### Inventory

| component | state it keeps | operations | interacts through | hard behaviour |
|---|---|---|---|---|
| claw_core request loop (`claw_core*.c`) | request and response queues; behind `inflight_lock` the request in flight, its phase, abort reason and insert queue | submit, insert (user interrupt), cancel, start, stop, receive, the worker task | FreeRTOS queues, the abort callback polled by the HTTP transport, the persist callback, capability calls, completion observers | inserts and cancels race with every phase; one abort flag for two purposes; stop against a full queue |
| claw_core LLM runtime (`claw_core_llm.c`, `llm/`) | runtime under `llm_lock` | chat, replace the runtime | called by the worker; replaced by the agent manager | replacement waits for a chat |
| claw_core responses (`claw_core_messages.c:282-402`) | responses set aside, `response_lock` | receive, receive_for | console, web | a waiting receiver holds the lock |
| event router (`claw_event_router.c`) | event queue, pending table, rules, last result | publish, cancel, purge, reload, route one event, add, update and delete a rule, start, stop | publishers' tasks, the router task, capability calls, submission to the root agent, the rules file | table and queue are changed in separate sections; the mutex is held while it waits for the core, and the core publishes |
| agent manager (`claw_agent_mgr.c`) | slots of agents under one mutex | spawn, send, inspect, list, close, delete, submit to root, update configuration | capability calls of the root agent, the router, completion observers on the cores' tasks | cores are destroyed without the mutex; observers read a slot without it; the mutex is held across waits |
| session manager (`claw_session_mgr.c`) | map files: aliases of a chat, children of a session | build an id, new, switch, list, delete | agent manager, console, history | map files are rewritten in place |
| session history (`claw_memory_session.c`) | per session a data file, an index, a blocked marker | append, load, compact, delete | persist callback of the core, context provider, session manager | crash between two files; compaction in place; deletion while in use |
| long-term memory (`claw_memory.c`, `claw_memory_storage.c`) | records (last line of an id counts), an index of labels, a digest of recalls | store, update, forget, recall, compact | capabilities of agents, extraction | no lock, files written in place, a compaction inside any of the operations |
| memory extraction (`claw_memory_extract*.c`) | a queue of jobs | take a finished turn, ask the model, store | worker task, long-term memory | queue at its limit |
| rules file (`claw_event_router.c`) | the rules on flash and in memory | add, update, delete, reload | console, capabilities, the router's mutex | two editors; a replacement that breaks off |
| capability runtime (`claw_cap.c`) | groups and descriptors with state, call counters | register, start all, enable, disable, unregister, call | every caller of a capability | calls run outside of the mutex while groups come and go |
| skills (`claw_skill.c`) | registry of skills, active skills per session | scan, reload, activate, deactivate | context provider, capabilities | no lock: a reload empties the registry that others read |
| claw_ramfs | nodes, open files, bytes used | VFS operations, sync to flash, load from flash | VFS, its own lock | unlink and rename under an open file; a copy in many calls; power cuts |
| http_reuse | pool of kept connections, leases | init, perform, cleanup, idle reaper | every HTTP client | a lease taken while the reaper runs |
| chat platforms (`cap_im_platform`) | token, cursor or offset, ring of seen messages, queues of frames and of attachments | poll or serve a websocket, download, send, start, stop, log in | publish events; their servers; http_reuse | lost answers, redelivery, frames in fragments, stops that time out |
| web chat, web server, console, configuration, board | connections, settings | – | publish events, call the above | external protocols |

### What makes it correct

* core: an accepted request is served, in order, one at a time, and answered; an
  input inserted into it is absorbed by that request and no other; a cancel stays
  a cancel; whatever was persisted of a turn is closed; a stop ends the task.
* router: what is accepted is received, can be cancelled until then, and is not
  routed after an acknowledged cancel; the rules being executed stay; nobody waits
  for ever in the ring router – core – router.
* agent manager: a slot belongs to one agent as long as its core runs; one core
  per session; reports carry the right name; every call returns.
* history: what was acknowledged can be loaded, in order, after failed writes,
  resets of the device, compactions and deletions.
* long-term memory, rules, skills, sessions, files in RAM: a change that returned
  ESP_OK stays, through failed writes, power cuts and other tasks; what is parsed
  from files is valid and has no id twice; a new session inherits nothing.
* chat platforms: what a server forgets has been looked at, no text is published
  twice, no frame is mixed from two, a stop frees nothing in use, and ESP_OK of a
  send means delivered.
* http_reuse: a client is in the hands of one task, is not closed under it, goes to
  the host it was asked for, and repeats a request once at most.
* capabilities: no call executes code of a group that is being unloaded, and an
  unregistration ends.

## 2. The modules

Every critical section of a lock and every queue operation is one action; what a
task does on its own data in between belongs to the next action. Payloads (texts,
JSON, prompts, names) are left out, where a property does not tell them apart.
Exhaustion of the heap is not modelled. Operators whose comment
begins with "Faulty variant" (for instance `ReportAlways` of `Report`) are the form a
plausible bug would give an action: they occur in no specification, and show that
the properties can fail.

### ClawCore – one core

`ClawCore.tla` (`claw_core.c`, `claw_core_messages.c`, `claw_core_control.c`,
`claw_core_agent_loop.c`, `claw_core_context_persist.c`). Actors: the worker task
(`task` is its program counter, with a place for every lock and queue operation of
`claw_core_task`), one submitter per request (`Submit`, `InsertInput`,
`RefuseInput`, `FallThrough`, `SendRequest`, `SendTimeout`), the canceller, the
stopper (`claw_core_stop` in its four steps), the reader of the response queue, the
starter. The shared variables are the fields of `claw_core_state_t` of the same
name. An LLM exchange is a step that begins, one in which the transport polls the
abort flag, and one that returns text, tool calls, an error or the abort. `turn`
is what has been handed to `persist_context` for the current request. `host`,
`done`, `absorbed` and `cancelled` are history variables.

`RequestLifecycle.tla` is what a caller may rely on: stages a request goes
through, first come first served, one active at a time, inputs absorbed together
by their host or dropped with it. It knows no queue bound, phase, lock or abort.
After a stop it serves nothing any more: what is queued stays or is discarded.
`ClawCoreLifecycle.tla` maps the state of the core to it (`Stage`, `Queued`); that
every behaviour of ClawCore is one of RequestLifecycle is the property
`LifecycleSpec`, checked by TLC and proved in `ClawCore_proofs`.

### EventRouter

`EventRouter.tla` (`claw_event_router.c`, `claw_event.c`). Actors: tasks that
publish, one of them the core that takes messages from its inbox and publishes its
answers; the canceller; the console that purges and reloads; the router task. A
publish is three steps as in the code: track in the table, send to the queue with
a timeout, on failure take the slot back by event id. The router holds its mutex
from `match` to the end of the rules, so the actions that need the mutex wait. An
event has a serial number (which the code does not have) and the id the code gives
it; with `Coincident` ids of the same millisecond coincide, as they do in the code.
Rules are sequences of actions: capability call, submit to the agent, emit, drop, each
fail-open or not.

The pending table is not able to track everything, and two properties say exactly how
far it does. `crossed` notes the events that were on their way among more events than
the table has slots, or beside one of their own id: of those, the code may have given
the slot, and a cancellation noted in it, to another event. OnTheWayIsTracked and
CancelledIsNotRouted speak of all the other events.

The mutex is recursive, and a capability that an action calls runs in the router's
task. It may cancel, publish, and exchange the rules (`CallCapEdits`: reload, add,
update, delete), which frees them under the two loops of the walk. From then on the
rule at hand is freed memory (`walk` = "freed"): how many actions it seems to have (up
to `FreedActions`), what they are and whether it consumes the event is any choice. The
loop over the rules then goes on among the new ones ("mixed"). RulesStayWhileRouting
says that this is the only way: nobody but the walk's own capability exchanges them.

### CapRegistry

`CapRegistry.tla` (`claw_cap.c`). The managing task boots, enables, disables and
unregisters groups, callback by callback; callers enter and leave calls. A call is
the two critical sections of `claw_cap_call` with the execution in between.

### SessionHistory

`SessionHistory.tla` (`claw_memory_session.c`, `claw_memory_utils.c`). Files are
values: the data file a sequence of cells, the index a sequence of entries, either
of them missing, the index possibly torn. The worker's append, its compaction
record by record, and the deletion of the session (three unlinks) are steps; at
each, `MaxBreaks` times, a write may fail or the device may reset, which keeps the
files and nothing else. A file that does not open, or a buffer that cannot be
allocated, makes the worker treat the pair as one that does not fit (`LoadReset`), and
counts among the breaks too. `Lists.tla` has the loops that pick the entries to keep and add
up the lengths before them.

### AgentManager

`AgentManager.tla` (`claw_agent_mgr.c`, the children's map of
`claw_session_mgr.c`). The mutex is a guard (`Lock`) and, where the code holds it
while it waits, the variable `holder`: a submission to a full queue, a report, a
change of configuration. A core is reduced to idle, turn, chat, report and ended;
`ClawCore` is its model. `RootTakes` stands for the root core taking its next
request, which it cannot do while its turn is inside a call of the manager. A
destroy that times out abandons its core (`leaked`): the manager frees the slot and
forgets the core, whose task goes on. CoresAreTheAgents says nothing about an
abandoned core: it may read a slot that another agent got since, and report under that
agent's name. What is promised is how much such a core can still do: it has been
asked to stop (OneCorePerSession), so it takes no further request, and it reports once
more at most, after the turn it is in (RemovedIsSilent).

A user works for a session (`SessionOf`) and names the children of that
session. In practice the root agent is the only user: the one other way in is a
rule whose action calls a capability as the agent (`claw_event_router.c:508`).
With two users of *one* session ContextIsOwn, OneCorePerSession and
LiveAgentIsKnown do not hold: a delete marks no slot when its agent has none, so
the other user can start the agent meanwhile and lose the slot under its core; and
an id is in the map before its spawn has a slot, so it can be started twice. The
code promises nothing for that case; it is a hazard (`claw_agent_mgr.c:1262`), and the run
`agents_progress` checks what holds even then.

### RulesStore, SessionMaps, Skills, MemoryStore, RamFs – what is kept in files

Each of these has actors, the files as values, and the power that may fail.

`RulesStore.tla` (`claw_event_router.c:1057-1131, 2665-2949`): editors read the file,
change the array, open, write, remove, rename, and put the parsed rules in place of those in
memory; one step each, because nothing locks the file. `accepted` is the list that the
successful edits make; `overlapped` and `lost` note when two editors were at work
together and when a replacement broke off between remove and rename. EditsAreKept says
that, but for overlaps, the file on flash is at every moment one that loads, or missing
between remove and rename; and that the accepted rules are there when nobody is at
work, unless a replacement was lost that way.

`SessionMaps.tla` (`claw_session_mgr.c`): the alias map of every chat and the
subagent map of a session, changed under one mutex, written in place: a write that
fails or is cut leaves a file nobody can read. A map that exists and cannot be opened
is taken for missing and written anew (`Opening`; `unopened` notes its owner), with the
suffixes of subagents beginning at 1 again. Turns end late (`TurnEnds`; `late`) and
write the history of a session that may have been deleted. These are the exceptions of
HistoriesAreListed and ChildrenAreNew, which say that there are no others.

`Skills.tla` (`claw_skill.c`): nothing is locked. A reload empties the registry, scans
one directory per step and installs the new or restores the old entries, while tasks
activate, deactivate and install documents.

`MemoryStore.tla` (`claw_memory.c`, `claw_memory_storage.c`): records, index and
digest, each action one read or one write of a file. Store, update, forget, recall;
a compaction every `CompactChanges` changes and at boot. The compaction reads the records,
reads the index, takes the size of the digest and reads the digest, in this order, before
it writes. A file may not open (`OpenFails`; an index that does not is taken for a new
one), and an operation ends with an error when MEMORY.md cannot be written, after
its index is (`MarkdownFails`). A memory is its content up to
what makes two of them equal for the code (36 characters), one label and an access count.
Its id is made of seconds and an unlocked counter that starts anew at a boot: ids are
fresh until a boot, or until two tasks were at work at once (`memIdsRepeat`), and
may then be any that was given out before. `memDamaged`, `memStale` and
`memRecounted` note each of the ways in which the code loses a memory, leaves the index
behind or counts a recall twice; MemoriesKept, IndexIsRight and RecallsCountedOnce say that
these are all.

`RamFs.tla` (`claw_ramfs.c`): the VFS operations, each a critical section, on the tree of
nodes, the descriptors and the directory stream; the mover that copies a file or the
directory between RAM and flash in many of them; unmount in its two steps.

`Stores.tla` puts SessionHistory and these five side by side: they share no state, so
their product shows nothing that the sum does not. The variable `store`, chosen once,
says which one a behaviour is about; the others keep their initial value and a property is
about the one chosen (`In`). The composite does not restrict any of them.

### The chat platforms

`ImTelegram`, `ImQq`, `ImFeishu`, `ImWechat` model one receiving side each, with the
platform's server as an actor that promises what the code relies on: Telegram
forgets updates below the offset of a poll; QQ sends frames in fragments over
connections that break; Feishu delivers a message again until its frame is
acknowledged; WeChat keeps a cursor. Answers get lost, devices reset (what is in RAM is
gone), a stop gives up on its task. The rings of seen messages, the queues of
attachments and the tasks that work on them are those of the code. History variables
note what was published and what was looked at.

`WechatLogin` is the login by QR code: pages that start, cancel and confirm a
session, the task that polls, the gateway's stop that frees both. `ImSend` is the
sending side of the four platforms: a call is a plan of requests, each of which may
be refused, or accepted with its answer lost; the token that is refreshed once; the
second try of the transport, which sends a request again whose kept connection
failed, even when the server has accepted it (`esp_http_client_reuse.c:632-645`; `extra`
counts what is shown twice that way, and ShownOnce bounds it); WeChat's limit of stage
messages, and those sent without the count because the lock was not to be had
(`missed`).

Of what the receiving sides and the login promise, these are the exceptions, each named
by a history variable and a hazard:

* UsedIsKept: on Telegram and QQ a stop gives up on its task after a timeout. A start
  then makes another task beside it, and the next stop frees what the first still
  uses (`outlived`, `strayHandler`). On WeChat only the polling task and the login's
  are covered: a stop does not wait for senders, nor for the start of a login.
* LoginSound: a start that finds the handle of an earlier task (`taskReused`) makes no
  task. The earlier one may end unseen, or store a late confirmation of a code of an
  earlier session.
* PublishedOnce: rings, and the history of this property, begin anew at a reset and, on
  Telegram, with a new token; not on Telegram after a token was set during a poll, nor on QQ
  beside a stray handler. ForgottenIsHandled has Telegram's exception too.

`HttpReuse` (`esp_http_client_reuse.c`) is the pool under all of them: `init`, `perform`,
`cleanup` in their stretches under the pool's mutex and the calls of the real client in
between, eviction, the idle timer. Handles are addresses and are used again.

`ImInbound.tla` puts the four receiving sides next to each other, `ImOutbound.tla` login,
sending and the pool; `Gateways.tla` composes the two as `Stores.tla` does, with
`gateway` as the choice.

Two assumptions on the constants came out of the proofs, where the models first
assumed less and the invariant failed:

* QQ and Feishu send again what is not acknowledged, and the ring of seen messages is
  all that keeps a text from being published twice. A ring of n is not enough
  against a server that repeats any of its last n messages: repeated ones take slots
  too, and push out younger ones. What it is enough against is a window of w
  (`ResendWindow`) with 2·w ≤ n + 1; with the 64 slots of `cap_im_qq.c:48` and
  `cap_im_feishu.c:58`, a window of 32 messages.
* WeChat counts the stage messages of a chat in a byte that stops at its maximum. The
  limit holds if the count can pass it by more than the one message that says so:
  StageLimit + 1 < StageMax (`cap_im_wechat.c:47`, 5 and 255).

## 3. The runs

States are TLC's distinct states.

| run | instance | properties | states |
|---|---|---|---|
| core_safety | 4 requests, 2 sessions, insert queue of 2, other queues of 1, 2 tool rounds | TypeOK, InflightIsClean, InterruptAbortHasInput, NoBlankOutcome, CancelHolds, TurnClosed | 2.4 M |
| core_lifecycle | 3 requests of one session, request queue of 1, insert queue of 2 | LifecycleSpec, StopExits, QueuedServed | 302 k |
| router | table 2, queue 2, ids that coincide, two publishers and the core, 3 events, two rule sets, capabilities that exchange them | TypeOK, OnTheWayIsTracked, CancelledIsNotRouted, RulesStayWhileRouting | 247 k |
| router_progress | table 1, ids that coincide, 3 events | NoStaleSlot, NobodyWaits | 27 k |
| router_table | table 2, queue 2 | TableCoversQueue, **violated** | – |
| capabilities | groups of 2 and 1 capabilities, 3 callers | TypeOK, CallsAreSafe, OpenIsReady, UnregisterEnds | 34 k |
| agents | 2 users with a session each, 1 slot, 2 cores, queue of 1 | TypeOK, CoresAreTheAgents, OneCorePerSession, RemovedIsSilent | 766 k |
| agents_progress | 2 users of one session, 1 slot, 1 core | AllGetThrough | 14 k |
| gateways | per platform 2 or 3 messages, a ring of 1, queues of 1 or 2, 1 or 2 resets; 3 codes; 2 senders, 2 chats, 2 chunks; 2 users and 3 handles, a pool of 1 | TypeOK, ForgottenIsHandled, PublishedOnce, FramesWhole, UsedIsKept, LoginSound, OkMeansDelivered, SentAsMeant | 1.1 M |
| stores | history: 8 records, limit of 7 cells, 1 failed write, opening or reset; maps: 1 chat, 2 default aliases, 1 fault; 2 editors and 3 edits; 2 skills in 2 directories, 2 callers; memory: 2 writers, 2 contents, 2 labels, room for 1, 2 ids, 2 operations; RAM: 3 nodes, 2 descriptors, 2 bytes; one power cut each | TypeOK, HistoryInOrder, NothingForgotten, CompactionSound, NothingInherited, ParsedIsSound, ChangesAreKept, TreeSound | 1.1 M |
| memory_update | 1 writer, 2 contents, 1 operation after what the boot finds, no failure | UpdatedIsKept, **violated** | – |
| skills_override | 1 skill in 2 directories | WritableOverrides, **violated** | – |

Several properties are conjunctions of what could be stated one by one, each part
with its own definition and comment in its module:

* InflightIsClean: InputsBelongToInflight (abort reason and insert queue belong to the
  request in flight) and WakeNotServed (the wake item of a stop is no request).
* CancelHolds: CancelPreventsAnswer and the action property CancelSticky.
* CallsAreSafe: MembersFollowGroup, CallsCounted, NoCallOnUnloaded.
* NobodyWaits: AcceptedIsReceived, PublishReturns.
* CoresAreTheAgents: ContextIsOwn, ReportIsOwn, LiveAgentIsKnown.
* AllGetThrough: CallsReturn, ReportsEnd, always ClosingHasCloser.
* those of Gateways and Stores: the properties of their components, as written there.

Why these bounds are enough to see what can go wrong:

* core: an interrupt needs a host and an input; a second input is what can be taken
  halfway; the fourth request belongs to the other session, so that an insert can
  meet the wrong host. Queues of one are full at once. Two tool rounds reach the
  iteration limit and the restart after a drain.
* router: the table is as large as the queue, as it is by default in the code, and two
  slots are filled by one event queued and one being sent: the third event evicts. Two
  events at once fit, and must be tracked wherever they are, whatever the publish of one
  of them, its timeout or a cancel does; two of one id meet in the table, in the queue and
  in the router's hands, with a third that has nothing to do with them. A freed rule that
  seems to have two actions is one that ends and one that goes on. `router_table`, with
  ids that differ, shows that eviction alone is enough to lose a queued event.
* capabilities: a group of two has a first and a second callback to fail between; a
  second group is the one that must not be affected.
* history: eight records are two turns with a tool call and its result each; seven cells
  are what both need without the tools of the first, so a compaction has to give those up
  and spare the tools of the second. One break is a reset, a failed
  write or a pair that does not open, at every place; the repair after it runs to its
  end. Records of two lengths make an index read data it was not written for.
* agents: one slot for two users makes every spawn take the slot of the agent closed
  last, whose core may still be on its way out; two cores are the one being
  destroyed and its successor.
* gateways: a ring of one forgets a message as soon as the next is seen, so that on
  Telegram and WeChat what is published once is so because of offset and cursor and not
  of the ring; on QQ and Feishu it is the smallest ring, with the largest window it is
  enough for. Two messages are one redelivered and one after it; three on WeChat let the
  cursor be lost between two batches. Two connections and frames of two
  fragments are what an assembly can mix. Three codes are one expired, its replacement
  and one of a later session. Three handles against a pool of one make an address
  come back while the pool's only place is taken. Larger rings and windows, which
  the run does not have, are the proofs' part.
* stores: two editors are needed to overlap, two more edits to see it later. A memory
  with room for one is trimmed as soon as there is a second; `k2`, longer than its share
  of the buffer, is what an overlong record does to a compaction. Three nodes are a
  directory, a file in it and the temporary copy; two descriptors meet at one file.

Bounds that the code does not have: `MaxEvents`, `FreedActions` (EventRouter),
`MaxRecords`, `MaxBreaks` (SessionHistory), `MaxIds`, `MaxCores` (AgentManager), the
number of `Requests` (ClawCore, one submission each), `MaxSuffix`, `MaxTurns`, `MaxFaults`
(SessionMaps), `MaxEdits`, `MaxPowerCuts` (RulesStore), `MaxSkillEdits`, `MaxSkillCalls`
(Skills), `MaxIds`, `MaxMemOps`, `MaxRecalls`, `MaxMemCuts` (MemoryStore; what the first
boot finds counts as an operation), `MaxOffset`, `MaxCalls`, `MaxCuts` (RamFs), the
numbers of messages, frames, connections, resets, tokens and codes (chat platforms),
`MaxChunks`, `MaxMissed` (ImSend). Callers and chats of ImSend are alike (`Symmetry` of
`MCGateways`). Deadlock is not checked: each bounded system ends when its bounds are used
up, and a device that nobody writes to rests.

### The findings

* `router_table`: `claw_event_router.c:47-48` asserts at compile time that the pending
  table is at least as large as the event queue, so that every queued event is
  tracked. An event is tracked before it is queued, and publishers that wait for room
  hold slots: they evict those of queued events, which can then no longer be cancelled.
* `memory_update`: an update stores the new memory and then forgets the old one by
  its id. If a compaction runs at the end of the store, and the two begin with the same
  36 characters, it merges the new into the old; the forget then removes what is left.
  The update returns ESP_OK and the memory is gone (`claw_memory.c:551`).
* `skills_override`: the scan's comment says that the writable directory overrides a
  skill of the firmware; the boot adds the directories in the other order, and the
  earlier one wins.

Met while modelling, and modelled as the code does it, without a run of their own:
compaction reserves 512 bytes per record, so a longer record can end the file early (the
memories after it are what `memDamaged` notes); a memory index that cannot be parsed
stays so; ids of memories may repeat after a boot or when two tasks store at once, and the
later line then replaces another memory (`InUse`, noted in `memDamaged`); a recall between the
moment a compaction takes the size of the digest and the moment it reads it is counted twice
(`memRecounted`); a session map that could not be opened is overwritten, and one that
was cut while being written stays unreadable; two reloads of the skills at once may
leave the registry empty; the status of a WeChat login is read without the lock that
guards it. Two hazards of the memory came out of the attempts to prove its
properties, whose first invariants did not hold. Two updates that overlap, each storing what the
other one forgets, lose a memory between them: forgetting by id does not look at whether
another update still relies on the line (`memDamaged` notes it, by `ReliesOn`). And a
power cut in a compaction after some of its records are written, but not all and
not the index, leaves records whose recalls are already counted beside an index
that still counts them as new (`memRecounted`).

## 4. Fairness

* ClawCore: weak fairness of the worker, of the two steps by which a stop proceeds, and of
  the reader of responses: FreeRTOS runs a ready task, and every wait of the worker is
  with a timeout or on a queue somebody serves. No submitter is assumed to do anything: a
  request is submitted once, so the user interrupts that can drain into a turn are
  finitely many. QueuedServed needs the reader, because a full response queue blocks the
  worker for ever (`claw_core_messages.c:271`).
* EventRouter: weak fairness of the router task; strong fairness of the steps
  of a publish that need the mutex, because the router takes and gives it over and
  over and FreeRTOS gives a mutex to the waiting task of highest priority; weak
  fairness of sending, which ends at its timeout.
* CapRegistry: the managing task goes on, and a capability's execution returns.
* AgentManager: strong fairness of a caller's next step and of a reporting
  observer (both wait for the mutex with a timeout or for its turn), weak fairness
  of the end of a chat, which the HTTP transport bounds. The root agent is *not*
  assumed to take anything from its queue.
* Stores and chat platforms: only safety is checked, no fairness is assumed.

## 5. Proofs

For every value of the constants that satisfies the named assumptions.

* `ClawCore_proofs` (from `CoreAssumption`). `BaseInv` = TypeOK ∧ TaskInv ∧ WakeInv
  ∧ InputsBelongToInflight is inductive: TaskInv ties the worker's place to
  `inflight` and `cur`, without which nothing says that an input accepted under the
  lock belongs to the request being worked on. With it, `AbortInv` (an armed
  interrupt has its input, a cancel survives until the release) and the invariant
  of the persisted turn are inductive. The lemma `DrainsAll` says that a drain
  takes everything that waits, because all of it is of one session. Theorems:
  TypeCorrect, InputsBelong, WakeIsNoRequest, InterruptHasInput, NoBlankResponse,
  CancelledIsNotAnswered, CancelIsSticky (an action property), TurnIsClosed; and, put
  together as the runs check them, InflightStaysClean and CancelKeepsHolding.
* Also in `ClawCore_proofs`: the refinement of RequestLifecycle. The stage of a
  request is read off several variables, so two of them must not disagree about
  it: `PlaceInv` says that a request is at one place only (with its submitter, in the
  queue and there once, with the worker, or in the insert queue). With BaseInv it is
  inductive, and each action of the core is one step of the lifecycle (a receipt's
  stop check is Serve or Discard, a drain is Absorb, the critical section that clears
  inflight is Release, the response is Answer) or, by `UnseenStutters`, none.
  Theorems: PlacesAreOne, CoreImplementsLifecycle.
* `CapRegistry_proofs` (from `RegistryAssumption`). `IInv` = TypeOK ∧
  MembersFollowGroup ∧ CallsCounted ∧ NoCallOnUnloaded ∧ Managing. NoCallOnUnloaded
  needs the counter to be exact, and the counter needs finite cardinalities of
  the set of callers executing a capability; `Managing` says which states the
  group in the manager's hand can be in. `OpenInv` adds that while a group is being
  started the members before the next one are up, and that a group being taken down
  is open no more. Theorems: TypeCorrect, MembersFollow, CallsAreCounted,
  UnloadingIsAlone, CallsMeetTheirGroup for the three together, and
  OpenGroupsAreReady.
* `EventRouter_proofs` (from `RouterAssumption`), for any table, queue and rules, with ids
  that coincide or not. `IInv` = TypeOK ∧ Carrying ∧ NoStaleSlot ∧
  RulesStayWhileRouting; `Carrying` says which task has an event in hand at which place,
  so that every slot in the table can be traced to an event on its way. Theorems:
  TypeCorrect, TableIsClean, RulesAreStable. `TrackedInv` = OnePlace ∧ TableInv ∧
  NotTold: an event is in one place only (a task, the queue, the router) and, unless it
  crossed others, it has one slot (`OneSlot`, OnTheWayIsTracked), where its
  cancellation is marked (`Marked`). `TwinsAreCrossed` says that events of one id have
  crossed, so that a slot found by id is the event's own. With NoStaleSlot the used slots
  are no more than the events on their way, so that `SlotIsFree` (a pigeonhole) finds a
  free one whenever the events fit in the table, and nobody is evicted. Theorems:
  EveryEventIsTracked, CancelledStaysUnrouted. That an event with no twin on its way is tracked
  whenever the events fit in the table is this; with the code's default
  (`claw_event_router.c:37, 47`, both 6) they may not fit, as `router_table` shows.
* `AgentManager_proofs` (from `ManagerAssumption`). `BaseInv` = the types, one variable
  at a time, ∧ WorksOnOwn (a caller works on an agent of its own session) ∧
  CreatedInOrder gives TypeCorrect. The other theorems assume `Apart`, that no two
  users work for the same session; without it they are false (see AgentManager above).
  `IInv` = BaseInv ∧ HandInv ∧ SlotInv ∧ KnownInv ∧ CoreInv: a core that runs is in
  its agent's slot, or the slot waits for its end in the hands of a caller; and
  whoever closes, deletes or spawns an agent is the only one at it (`NobodyElse`,
  `NoneLeft`), which is where Apart is needed. The steps fall into those that change
  nobody's slot (`Quiet`), those that take a vacant slot (`Occupies`), the removal of a
  core, and those that mark a slot anew (`Unmarks`); each kind has one lemma and each
  action is shown to be of its kind. An abandoned core is outside of these (it
  has no slot); `StopInv` says that it was asked to stop. Theorems: CoresStayTheAgents
  and OneCoreEach, of the cores that were not abandoned; RemovedStaysSilent (an action
  property), of both.
* `ClawMemory_proofs`, the history (from `HistoryAssumption`). `HistoryInv` says, for each place
  of the worker, what the pair of files holds. Its heart is `Whole`: every entry of the
  index points at the whole text of one record of its type, the entries lie apart
  and ascend in both files, and the user texts and final answers among the
  acknowledged records are there. `IdlePair` asks it of a pair that validates,
  `ClosePair` of the index with the data as they were before the batch,
  `RewritePair` of the data with the entries already moved at their new
  offsets and the others at their old ones, `TruncatePair` of the part of
  the index that stays. HistoryInOrder alone is not inductive: an index left by a broken
  compaction or append must not validate against the data it meets later, which is
  about the lengths of both (`EmptyIdx`, and the assumption that records have at least one
  cell). That a kept record is never overwritten before it is read is `OffsetsShrink`:
  the new offset of a record is at most its old one. `Lists` holds the two loops of
  the code that this needs, as a function from positions (`InOrder`) and a recursive
  function (`Total`); facts about them are proved by the least number that fails
  (`LeastNumber`, from the well-foundedness of the naturals), for want of induction.
  ToolTurnKept has an invariant of its own, `TurnsInv` = Batches ∧ ToolTurns: a tool call is
  handed over with its result, and what an index reads, at each place of the worker
  that may leave it to the next load, has the newest completed turn that ran tools
  whole and no call without its result. An earlier form of the property was false beyond
  six records, which the attempt to prove it showed.
* `ClawMemory_proofs`, the memory (an instance of MemoryStore, from its assumption on
  the constants), for any writers, contents, labels, ids and lengths of files. `MemoryInv`:
  - `MemoryTypes`, and `Handles`: what a writer has in hand at each place of its call;
  - `Numbered`: unless `memDamaged`, an id, in the file or in any writer's hands, never
    stands for two contents, and the id of a memory about to be appended is known
    nowhere else. An id given out again while it is in use is one of the things that
    `memDamaged` notes: it lets a memory replace another, and an update forget one that
    it never read;
  - unless `memDamaged` notes a loss, `Keeps`: every memory that was acknowledged is alive in
    the file; it is among what each compaction under way will write; and the content
    an update has stored survives beside the id it will forget. MemoriesKept
    speaks of the file only, and none of the three follows without the others.
  - unless `memRecounted` notes a cause, `RecallsInv` (beside the others): how much of the
    digest the index covers bounds the count of every line, which is why what a compaction
    adds from the rest of the digest counts each recall once. Between the records of a
    compaction and its index it is the index about to be saved that bounds them; a new or
    relabelled index keeps what the one it replaces covered.

  What a compaction does (merging, trimming, counting recalls, relabelling) is a chain of
  recursive functions on sequences; each has a lemma on what it keeps (`HoldsFirst`,
  `MergedHolds`, `TrimmedKeeps`, `RelabelledKeeps`), proved for every length by the
  least position that fails. An append, a write and a forgetting are then each shown
  to be of one of three kinds: they copy what is known, add a memory of a new id, or drop
  one that nobody relies on.
* `Stores_proofs` (from `StoresAssumption`), for the six stores, each with an
  invariant of its own; `StoresInv` says that each keeps it while the behaviour is
  about it.
  - The history and the memory, by `ClawMemory_proofs`, of which the module has an
    instance; the two instances of SessionHistory, and of MemoryStore, agree definition by
    definition (`HiNext`, `MeNext`). Theorems: HistoryStaysInOrder, NothingIsForgotten
    (NothingForgotten as the run states it), HistoryStaysBounded (SizeSettled and the
    types), ToolTurnsStayKept (ToolTurnKept) and RecallsStayCounted (RecallsCountedOnce).
  - Rules, for any editors, ids and edits. `RulesInv` = RuSoundInv ∧ RuAloneInv ∧
    RuKeptInv. RuSoundInv: what is whole on flash, or in the hands of an editor, loads and
    has distinct ids; the lemma `RuEditParses` says that editing the JSON array is editing
    the rules in it. RuAloneInv: whoever works alone does, and nobody overlaps unnoticed.
    RuKeptInv: what file, temporary file and memory hold at each place of an edit.
    RuLoadsInv: unless edits overlapped, the file loads or is missing at every place of an
    edit, and at a start. Theorems: RulesStaySound and EditsStayKept, the parts of
    ParsedIsSound and ChangesAreKept about the rules.
  - Session maps, for any chats, names, suffixes and faults. `MapsInv`: a map that is
    whole was checked before it was written, every suffix a map lists or that was ever
    given out is below the map's next one, and a subagent's history is of a child that is
    listed or has a damaged map; each unless the map could once not be opened, and the
    histories of chats unless a turn ended late. That a subagent's id is new does not
    follow from the list, which forgets what it drops, but from the counter; so the
    invariant needs both. Theorem: NothingIsInherited.
  - Skills, for any tasks, sessions, directories' contents and any finite number of
    skills (`SkillsBounds` says finite, the code has an array of 64). `SkInv`: a scan
    holds what the directories before its next one had when no document changed since it
    began (`SkCatalog`, with `SkNextRoot` for one directory more); unless reloads met,
    there is one at most and what it set aside is what was last installed; a session
    that nothing disturbed has one call at work, whose ids are those in its file.
    Theorems: ParsedStaysSound (with the rules), ActiveStaysKept.
  - The copy on flash of a file in RAM. `RmInv`: between the unlink and the rename the
    temporary file holds what was to be written, and at every other place the file on
    flash is what was synced last, or missing; it is never a part of a file. What the
    clients do to the files in RAM does not matter to it. Theorem: SyncedStaysKept.
* `ImInbound_proofs` (from `InboundAssumption`): receiving, one theorem per platform,
  for any numbers of messages, frames, connections and resets and any sizes of rings and
  queues. Lemmas used by several: what an append to a full ring keeps (`RingMoves`), that
  few numbers lie near one (`FewAreNear`, a pigeonhole), what a new batch holds.
  - TelegramReceives. `TgInv`: a batch in hand is of consecutive updates, begins no
    lower than the offset, and everything below the offset and before the batch has
    been looked at, as long as no token is set during a poll (and, for the queue, as long as no
    task that outlived a stop has another beside it). The ring is not needed
    for it, the offset alone suffices. With no task left over, the handle says whether
    the one downloading task is there.
  - QqReceives. `QqInv`: connection, task and queue come and go together; what is
    assembled, queued or handled is a beginning of one frame that was sent, and the
    frames on their way are in the order they were sent in. `QqRingInv` is
    about the window: numbers in the ring never fall by w or more, what was published
    and has left the ring is less than w above everything in it, and so what is in the
    ring would be too many numbers within 2·w if such a text came again.
  - FeishuReceives. `FsInv`: the same for frames and ring, where a message may come again
    in any order within the window, and an acknowledged one has been looked at.
  - WechatReceives. `WxInv`: what lies below the cursor and before the batch has been
    looked at, and a request that is under way asks from a cursor the server may forget.

  The exceptions are those of the properties (see "The chat platforms").
* `Gateways_proofs` (from `InboundAssumption` and `OutboundAssumption`).
  - PoolKeepsClients, for any tasks, handles and hosts and any pool. `HpInv`: two
    tasks never have the same client; a node is leased exactly while a task has its client;
    a lease is of a client outside of the pool that its task still has; and
    where each task stands in `perform` says whether the client came from
    the pool and whether the request was tried again. That addresses are used again is why
    the first two are needed together. Every reordering of the pool (removal, insertion,
    eviction of the oldest, the idle timer) has its lemma about sequences.
  - SendsWhatItSays. `OutInv`: what is accepted and what is still to be sent make up
    the plan in its order, nothing of it twice, unless a failure was noted; what the
    transport's second try shows again is one request, after a lost answer (on QQ two);
    and the stage cache fills its slots in order, one per chat, so that, by counting,
    no chat loses its count while there are no more chats than slots. What was sent
    without the lock is counted apart.
  - LoginKeepsSessions. `LoginInv`: a task without a handle is at its end, the lock is
    where the places of start and task say, a start that found no handle has no task
    beside it, and codes in use are codes of this session, unless a start found an earlier
    task's handle.
  - `GatewaysInv`, that each platform keeps its invariant while the behaviour is about it,
    and from it all eight properties of the run `gateways`, as the run states them:
    GatewaysKeepTypes, ForgottenStaysHandled, TextsArePublishedOnce, FramesStayWhole,
    UsedStaysKept, LoginStaysSound, OkStaysTrue, SentOnceAsMeant.

Model-checked only: liveness (beyond the prover's reach, as is ENABLED);
ClosingHasCloser; and of Stores the types of the maps, the rules, the skills and the
RAM file system, IndexIsRight (so CompactionSound as a whole), TreeSound, and LoadedWhole of
ChangesAreKept. BytesAccounted and the reachable
nodes of TreeSound rest on recursive sums and walks over trees: what those compute
for every tree needs an induction over data, which the provers cannot do. LoadedWhole
holds because the clients' paths never name the temporary file, through all the ways
to rename the directory around it. IndexIsRight is about one operation at a time, through
every place at which it may have been left.

## 6. What is not modelled

* JSON, prompts, context assembly, the formats of LLM vendors and chat platforms,
  the web pages: conversions without shared state, or external protocols.
* Who gets which response (`claw_core_messages.c:282-402`): ClawCore has the response
  queue and one reader of it.
* The runtime of the LLM (`claw_core_llm.c`): a chat is three steps of ClawCore with its
  abort; the swap of the runtime is AgentManager's `UpdateCore`.
* The jobs of memory extraction: their writes are those of a writer of MemoryStore.
* Registration of groups while the system runs; visibility of capabilities.
* Stopping the event router.
* On the chat platforms: heartbeats, WeChat's context tokens, the files that
  attachments are saved to, new credentials while QQ, Feishu or WeChat runs.
* The keyword index and the Markdown copy of the memory, profiles; calls of any store
  that only read.
* Exhaustion of the heap, except where the code goes on without what it wanted
  (leases, pool nodes, nodes of the RAM file system); more than one root agent;
  clocks, except as timeouts that may strike whenever their wait is not over, and the
  age of a pooled connection.
* SessionHistory: records of another LLM backend, which a load filters.
* The components marked not_modelled in PROJECT.json, each with its reason.

## 7. Plan

Done: ClawCore with its abstraction, CapRegistry, EventRouter, AgentManager, the
stores, the chat platforms with the pool of HTTP clients. What is left, in order:

1. Proofs: IndexIsRight; HandlesAlive and the lists of children of TreeSound; the types
   of the stores; AgentManager's ClosingHasCloser.
2. `ClawResponses`: receivers with and without an id, the lock held while waiting.
3. The jobs of memory extraction against the history they read.
4. A composition of EventRouter, AgentManager and the root core on the ring of
   mutexes and queues between them; so far each has the next one's queue in it.
