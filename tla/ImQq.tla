--------------------------------- MODULE ImQq ---------------------------------
(***************************************************************************)
(* The QQ gateway (cap_im_qq.c): the task that keeps a websocket           *)
(* connection, the callback of the websocket client that puts frames       *)
(* together out of fragments, the task that handles the queued frames and  *)
(* the task that starts and stops them.  The frames of a lost connection   *)
(* stay in the queue and are handled under the next one.                   *)
(***************************************************************************)
EXTENDS Naturals, Sequences, SequencesExt, FiniteSetsExt

CONSTANTS
  MaxFrames,       \* bound on the frames the server sends
  MaxConnections,  \* bound on the connections
  FrameQueueLen,   \* CAP_IM_QQ_INBOUND_QUEUE_LEN
  SeenSize,        \* CAP_IM_QQ_DEDUP_CACHE_SIZE
  ResendWindow     \* the server delivers again only what is among its last messages

\* A message delivered again may come after all others of the window: the ring
\* has to be nearly twice as long.
QqAssumption ==
  /\ {MaxFrames, MaxConnections, FrameQueueLen, SeenSize, ResendWindow} \subseteq Nat \ {0}
  /\ 2 * ResendWindow <= SeenSize + 1

\* Fragments of a frame that is longer than the client's buffer.
FrameLens == {1, 2}
Handlers == {1, 2}

VARIABLES
  frames,        \* server: kind, message and length of every frame sent
  sending,       \* server: the frame and the fragment that comes next, or none
  link,          \* the connection: none, opening or up
  connections,   \* connections so far
  wsTask,        \* ws_task: none, fetching the URL or serving a connection
  wsConnected, identifyPending, shouldReconnect,  \* its flags
  qqStopping,    \* stop_requested
  assembly,      \* ws_assembly: fragments received, or none
  assemblyLen,   \* ws_assembly.payload_len
  frameQueue,    \* inbound_queue: frames as fragments, or none
  handlers,      \* the inbound tasks: none, waiting, busy or saving
  inHand,        \* the frame each of them handles
  inboundHandle, \* inbound_task # NULL
  qqStopper,     \* where gateway_stop is
  seenMessages,  \* the ring of seen_msg_keys, oldest first
  qqTexts,       \* history: messages published
  strayHandler   \* history: an inbound task outlived a stop

linkVars == <<link, connections, wsTask, wsConnected, identifyPending, shouldReconnect>>
serverSide == <<frames, sending>>
assemblyVars == <<assembly, assemblyLen>>
inboundVars == <<handlers, inHand, inboundHandle, strayHandler>>
outVars == <<seenMessages, qqTexts>>
qqVars == <<serverSide, linkVars, qqStopping, assemblyVars, frameQueue, inboundVars,
            qqStopper, outVars>>

None == <<>>
NoFrames == <<<<>>>>

Init ==
  /\ frames = <<>> /\ sending = None
  /\ link = "none" /\ connections = 0 /\ wsTask = "none"
  /\ wsConnected = FALSE /\ identifyPending = FALSE /\ shouldReconnect = FALSE
  /\ qqStopping = FALSE /\ assembly = None /\ assemblyLen = 0 /\ frameQueue = NoFrames
  /\ handlers = [h \in Handlers |-> "none"] /\ inHand = [h \in Handlers |-> None]
  /\ inboundHandle = FALSE /\ strayHandler = FALSE
  /\ qqStopper = "none" /\ seenMessages = <<>> /\ qqTexts = <<>>

-----------------------------------------------------------------------------
(* The server and the callback of the websocket client.                     *)

Messages == {frames[i].msg : i \in {j \in DOMAIN frames : frames[j].kind = "dispatch"}}
NewMessage == Cardinality(Messages) + 1

\* A message may be delivered again, in this connection or a later one, until
\* it is too old.
Deliverable == {m \in 1..NewMessage : m + ResendWindow >= NewMessage}

ServerSends ==
  /\ link = "up" /\ sending = None /\ Len(frames) < MaxFrames
  /\ \E len \in FrameLens :
       \/ \E kind \in {"hello", "reconnect"} :
            frames' = Append(frames, [kind |-> kind, msg |-> 0, len |-> len])
       \/ \E m \in Deliverable :
            frames' = Append(frames, [kind |-> "dispatch", msg |-> m, len |-> len])
  /\ sending' = <<Len(frames) + 1, 1>>
  /\ UNCHANGED <<linkVars, qqStopping, assemblyVars, frameQueue, inboundVars, qqStopper, outVars>>

\* cap_im_qq_queue_inbound_frame: a full queue drops the frame.
QueueInboundFrame(frame) ==
  frameQueue' = IF Len(frameQueue) < FrameQueueLen THEN Append(frameQueue, frame) ELSE frameQueue

Put(parts, len) == assembly' = parts /\ assemblyLen' = len

\* Faulty variant: the first fragment does not clear what is left of another frame.
AssembleKeepsOld(len, offset, fragment) ==
  CASE len = 1 ->
         QueueInboundFrame(<<fragment>>) /\ UNCHANGED assemblyVars
    [] len > 1 /\ offset # 0 /\ (assembly = None \/ assemblyLen # len \/ Len(assembly) # offset) ->
         Put(None, 0) /\ UNCHANGED frameQueue
    [] OTHER ->
         LET parts == Append(assembly, fragment)
         IN  IF Len(parts) < len
             THEN Put(parts, len) /\ UNCHANGED frameQueue
             ELSE QueueInboundFrame(parts) /\ Put(None, 0)

\* cap_im_qq_handle_inbound_ws_data: offset 0 starts a frame, any other offset
\* must continue the one begun, and a complete one is queued.
Assemble(len, offset, fragment) ==
  CASE len = 1 ->
         QueueInboundFrame(<<fragment>>) /\ UNCHANGED assemblyVars
    [] len > 1 /\ offset # 0 /\ (assembly = None \/ assemblyLen # len \/ Len(assembly) # offset) ->
         Put(None, 0) /\ UNCHANGED frameQueue
    [] OTHER ->
         LET parts == Append(IF offset = 0 THEN None ELSE assembly, fragment)
         IN  IF Len(parts) < len
             THEN Put(parts, len) /\ UNCHANGED frameQueue
             ELSE QueueInboundFrame(parts) /\ Put(None, 0)

\* The client's task calls the handler with every fragment.
Fragment ==
  /\ sending # None
  /\ LET f    == sending[1]
         part == sending[2]
     IN  /\ IF frameQueue = NoFrames
            THEN UNCHANGED <<assemblyVars, frameQueue>>
            ELSE Assemble(frames[f].len, part - 1, <<f, part>>)
         /\ sending' = IF part = frames[f].len THEN None ELSE <<f, part + 1>>
  /\ UNCHANGED <<frames, linkVars, qqStopping, inboundVars, qqStopper, outVars>>

ConnectedEvent ==
  /\ link = "opening"
  /\ link' = "up" /\ wsConnected' = TRUE /\ shouldReconnect' = FALSE
  /\ UNCHANGED <<serverSide, connections, wsTask, identifyPending, qqStopping, assemblyVars,
                 frameQueue, inboundVars, qqStopper, outVars>>

\* A connection may break at any fragment.
DisconnectedEvent ==
  /\ link = "up"
  /\ link' = "none" /\ sending' = None
  /\ wsConnected' = FALSE /\ identifyPending' = FALSE /\ shouldReconnect' = TRUE
  /\ UNCHANGED <<frames, connections, wsTask, qqStopping, assemblyVars, frameQueue, inboundVars,
                 qqStopper, outVars>>

-----------------------------------------------------------------------------
(* cap_im_qq_ws_task                                                        *)

\* The gateway's URL is fetched and a client started; a failure is tried again.
WsConnect ==
  /\ wsTask = "fetch" /\ ~qqStopping /\ connections < MaxConnections
  /\ wsTask' = "serve" /\ link' = "opening" /\ connections' = connections + 1
  /\ wsConnected' = FALSE /\ identifyPending' = FALSE /\ shouldReconnect' = FALSE
  /\ UNCHANGED <<serverSide, qqStopping, assemblyVars, frameQueue, inboundVars, qqStopper, outVars>>

\* Identifying needs the connection; what cannot be sent ends it.
WsIdentify ==
  /\ wsTask = "serve" /\ ~qqStopping /\ identifyPending
  /\ \/ link = "up" /\ identifyPending' = FALSE /\ UNCHANGED shouldReconnect
     \/ shouldReconnect' = TRUE /\ UNCHANGED identifyPending
  /\ UNCHANGED <<serverSide, link, connections, wsTask, wsConnected, qqStopping, assemblyVars,
                 frameQueue, inboundVars, qqStopper, outVars>>

\* The client is stopped and destroyed when a reconnect is wanted, the
\* connection does not come up in time, or the gateway stops.
WsClose ==
  /\ wsTask = "serve"
  /\ shouldReconnect \/ qqStopping \/ (link # "up" /\ ~wsConnected)
  /\ wsTask' = "fetch" /\ link' = "none" /\ sending' = None
  /\ wsConnected' = FALSE /\ identifyPending' = FALSE /\ shouldReconnect' = FALSE
  /\ UNCHANGED <<frames, connections, qqStopping, assemblyVars, frameQueue, inboundVars,
                 qqStopper, outVars>>

WsTaskEnds ==
  /\ wsTask = "fetch" /\ qqStopping
  /\ wsTask' = "none"
  /\ UNCHANGED <<serverSide, link, connections, wsConnected, identifyPending, shouldReconnect,
                 qqStopping, assemblyVars, frameQueue, inboundVars, qqStopper, outVars>>

-----------------------------------------------------------------------------
(* cap_im_qq_inbound_task                                                   *)

TakeFrame(h) ==
  /\ handlers[h] = "waiting" /\ frameQueue \notin {None, NoFrames}
  /\ handlers' = [handlers EXCEPT ![h] = "busy"]
  /\ inHand' = [inHand EXCEPT ![h] = Head(frameQueue)]
  /\ frameQueue' = Tail(frameQueue)
  /\ UNCHANGED <<serverSide, linkVars, qqStopping, assemblyVars, inboundHandle, strayHandler,
                 qqStopper, outVars>>

Whole(frame) ==
  LET f == frame[1][1] IN frame = [i \in 1..frames[f].len |-> <<f, i>>]

\* Faulty variant: a message is not recorded.
DispatchNoDedup(m) == UNCHANGED seenMessages

\* cap_im_qq_handle_dispatch records a new message before it saves attachments.
Dispatch(m) ==
  /\ m \notin ToSet(seenMessages)
  /\ seenMessages' = LET ring == Append(seenMessages, m)
                     IN  IF Len(ring) > SeenSize THEN Tail(ring) ELSE ring

Done(h) ==
  /\ handlers' = [handlers EXCEPT ![h] = "waiting"]
  /\ inHand' = [inHand EXCEPT ![h] = None]

\* cap_im_qq_process_frame; what does not parse is dropped.
ProcessFrame(h) ==
  /\ handlers[h] = "busy"
  /\ LET frame == frames[inHand[h][1][1]]
         kind  == IF Whole(inHand[h]) THEN frame.kind ELSE "none"
     IN  \/ /\ kind = "hello"
            /\ identifyPending' = TRUE /\ wsConnected' = TRUE
            /\ Done(h) /\ UNCHANGED <<shouldReconnect, outVars>>
         \/ /\ kind = "reconnect"
            /\ shouldReconnect' = TRUE
            /\ Done(h) /\ UNCHANGED <<wsConnected, identifyPending, outVars>>
         \/ /\ kind = "dispatch"
            /\ Dispatch(frame.msg)
            /\ handlers' = [handlers EXCEPT ![h] = "saving"]
            /\ UNCHANGED <<inHand, wsConnected, identifyPending, shouldReconnect, qqTexts>>
         \/ /\ kind = "none" \/ (kind = "dispatch" /\ frame.msg \in ToSet(seenMessages))
            /\ Done(h) /\ UNCHANGED <<wsConnected, identifyPending, shouldReconnect, outVars>>
  /\ UNCHANGED <<serverSide, link, connections, wsTask, qqStopping, assemblyVars, frameQueue,
                 inboundHandle, strayHandler, qqStopper>>

\* The attachments are downloaded, in any time, and the text published; no
\* failure is more than logged.
SaveAndPublish(h) ==
  /\ handlers[h] = "saving"
  /\ qqTexts' \in {qqTexts, Append(qqTexts, frames[inHand[h][1][1]].msg)}
  /\ Done(h)
  /\ UNCHANGED <<serverSide, linkVars, qqStopping, assemblyVars, frameQueue, inboundHandle,
                 strayHandler, qqStopper, seenMessages>>

\* Only a task that finds the queue empty looks at the flag.
InboundTaskEnds(h) ==
  /\ handlers[h] = "waiting" /\ frameQueue = None /\ qqStopping
  /\ handlers' = [handlers EXCEPT ![h] = "none"] /\ inboundHandle' = FALSE
  /\ UNCHANGED <<serverSide, linkVars, qqStopping, assemblyVars, frameQueue, inHand,
                 strayHandler, qqStopper, outVars>>

-----------------------------------------------------------------------------
(* The managing task.                                                       *)

AnyHandler == \E h \in Handlers : handlers[h] # "none"

\* cap_im_qq_reset_runtime_state forgets the tasks, running or not.
ResetRuntimeState ==
  /\ Put(None, 0)
  /\ link' = "none" /\ sending' = None /\ wsTask' = "none" /\ inboundHandle' = FALSE
  /\ wsConnected' = FALSE /\ identifyPending' = FALSE /\ shouldReconnect' = FALSE
  /\ qqStopping' = FALSE

\* cap_im_qq_gateway_start
GatewayStart ==
  /\ qqStopper = "none" /\ wsTask = "none"
  /\ qqStopping' = FALSE
  /\ frameQueue' = IF frameQueue = NoFrames THEN None ELSE frameQueue
  /\ \E h \in Handlers :
       /\ handlers[h] = "none"
       /\ handlers' = [handlers EXCEPT ![h] = "waiting"]
  /\ inboundHandle' = TRUE /\ wsTask' = "fetch"
  /\ strayHandler' = (strayHandler \/ AnyHandler)
  /\ UNCHANGED <<serverSide, link, connections, wsConnected, identifyPending, shouldReconnect,
                 assemblyVars, inHand, qqStopper, outVars>>

\* A stop without a connecting task only resets the state; before the first
\* start there is nothing to reset.
StopIdle ==
  /\ qqStopper = "none" /\ wsTask = "none" /\ frameQueue # NoFrames
  /\ ResetRuntimeState
  /\ strayHandler' = (strayHandler \/ AnyHandler)
  /\ UNCHANGED <<frames, connections, frameQueue, handlers, inHand, qqStopper, outVars>>

StopBegins ==
  /\ qqStopper = "none" /\ wsTask # "none"
  /\ qqStopping' = TRUE /\ shouldReconnect' = TRUE
  /\ link' = "none" /\ sending' = None
  /\ qqStopper' = "ws"
  /\ UNCHANGED <<frames, connections, wsTask, wsConnected, identifyPending, assemblyVars,
                 frameQueue, inboundVars, outVars>>

\* Both waits end after ten seconds in all; a download may take longer.
StopTimesOut ==
  /\ qqStopper # "none"
  /\ qqStopper' = "none"
  /\ UNCHANGED <<serverSide, linkVars, qqStopping, assemblyVars, frameQueue, inboundVars, outVars>>

StopSeesWsEnd ==
  /\ qqStopper = "ws" /\ wsTask = "none"
  /\ qqStopper' = "inbound"
  /\ UNCHANGED <<serverSide, linkVars, qqStopping, assemblyVars, frameQueue, inboundVars, outVars>>

\* Faulty variant: the queue goes as soon as the connecting task has ended.
StopDeletesQueueEarly ==
  /\ qqStopper = "inbound"
  /\ frameQueue' = NoFrames /\ qqStopper' = "none"
  /\ ResetRuntimeState
  /\ UNCHANGED <<frames, connections, handlers, inHand, strayHandler, outVars>>

StopDeletesQueue ==
  /\ qqStopper = "inbound" /\ ~inboundHandle
  /\ frameQueue' = NoFrames /\ qqStopper' = "none"
  /\ ResetRuntimeState
  /\ UNCHANGED <<frames, connections, handlers, inHand, strayHandler, outVars>>

Next ==
  \/ ServerSends \/ Fragment \/ ConnectedEvent \/ DisconnectedEvent
  \/ WsConnect \/ WsIdentify \/ WsClose \/ WsTaskEnds
  \/ \E h \in Handlers : TakeFrame(h) \/ ProcessFrame(h) \/ SaveAndPublish(h) \/ InboundTaskEnds(h)
  \/ GatewayStart \/ StopIdle \/ StopBegins \/ StopTimesOut \/ StopSeesWsEnd \/ StopDeletesQueue

Spec == Init /\ [][Next]_qqVars

-----------------------------------------------------------------------------
FragmentSet == (1..MaxFrames) \X (1..Max(FrameLens))

TypeOK ==
  /\ frames \in Seq([kind : {"hello", "reconnect", "dispatch"}, msg : 0..MaxFrames, len : FrameLens])
  /\ sending = None \/ sending \in FragmentSet
  /\ link \in {"none", "opening", "up"} /\ connections \in 0..MaxConnections
  /\ wsTask \in {"none", "fetch", "serve"}
  /\ {wsConnected, identifyPending, shouldReconnect, qqStopping, inboundHandle, strayHandler}
       \subseteq BOOLEAN
  /\ assembly \in Seq(FragmentSet) /\ assemblyLen \in 0..Max(FrameLens)
  /\ frameQueue = NoFrames \/ frameQueue \in Seq(Seq(FragmentSet))
  /\ handlers \in [Handlers -> {"none", "waiting", "busy", "saving"}]
  /\ inHand \in [Handlers -> Seq(FragmentSet)]
  /\ qqStopper \in {"none", "ws", "inbound"}
  /\ seenMessages \in Seq(1..MaxFrames) /\ Len(seenMessages) <= SeenSize
  /\ qqTexts \in Seq(1..MaxFrames)

\* Every frame queued or handled is one frame of the server, whole, wherever
\* connections broke (cap_im_qq.c:240).
FramesWhole ==
  /\ frameQueue # NoFrames => \A i \in DOMAIN frameQueue : Whole(frameQueue[i])
  /\ \A h \in Handlers : handlers[h] \in {"busy", "saving"} => Whole(inHand[h])

\* A message is published once however often it is delivered, over any number
\* of connections, as long as one task handles the frames (cap_im_qq.c:973).
TextsOnce == ~strayHandler => \A i, j \in DOMAIN qqTexts : i # j => qqTexts[i] # qqTexts[j]

\* The queue stays as long as a task receives from it, unless a stop gave that
\* task up (cap_im_qq.c:1782).
QueueOutlivesTasks == AnyHandler /\ ~strayHandler => frameQueue # NoFrames
=============================================================================
