-------------------------------- MODULE ImFeishu --------------------------------
(***************************************************************************)
(* The Feishu gateway (cap_im_feishu.c): the task that keeps the websocket *)
(* client, the callback that puts frames together, handles the message in  *)
(* them and acknowledges it, the task that downloads attachments and the   *)
(* task that starts and stops the gateway.  The server delivers a message  *)
(* again until it is acknowledged, over any number of connections; what    *)
(* the device has seen is kept in RAM.                                     *)
(***************************************************************************)
EXTENDS Naturals, Sequences, SequencesExt, FiniteSetsExt

CONSTANTS
  MaxMessages,   \* bound on the messages sent to the device
  MaxResets,     \* bound on the resets of the device
  JobQueueLen,   \* CAP_IM_FEISHU_ATTACHMENT_QUEUE_LEN
  SeenSize,      \* CAP_IM_FEISHU_DEDUP_CACHE_SIZE
  ResendWindow   \* the server sends again only what is among its last messages

\* A message sent again may come after all others of the window: the ring has
\* to be nearly twice as long.
FeishuAssumption ==
  /\ {MaxMessages, JobQueueLen, SeenSize, ResendWindow} \subseteq Nat \ {0} /\ MaxResets \in Nat
  /\ 2 * ResendWindow <= SeenSize + 1

\* A text, a picture or file, a rich text with a picture in it.
Kinds == {"text", "file", "post"}
FrameLens == {1, 2}

VARIABLES
  fsMessages,    \* server: kinds of the messages sent to the device
  fsAcked,       \* server: messages acknowledged
  fsSending,     \* server: message, next fragment and length of the frame, or none
  fsLink,        \* the websocket is up
  fsWsTask,      \* ws_task: none, asking for the endpoint or serving a client
  rxBuf,         \* rx_buf: the fragments in it
  fsCall,        \* the callback: none, or the frame and how far it is
  fsSeen,        \* the ring of seen_message_keys, oldest first
  fsJobs,        \* attachment_queue: messages, or none
  fsDownloader,  \* the attachment task: none, waiting or how far a download is
  fsStopping,    \* stop_requested
  fsManager,     \* where start or stop is
  resetsLeft,    \* resets still to come
  fsTexts,       \* history: texts published since boot
  fsHandled      \* history: messages looked at, in this boot or an earlier one

serverVars == <<fsMessages, fsAcked>>
linkVars == <<fsSending, fsLink>>
outVars == <<fsSeen, fsTexts, fsHandled>>
fsVars == <<serverVars, linkVars, fsWsTask, rxBuf, fsCall, outVars, fsJobs, fsDownloader,
            fsStopping, fsManager, resetsLeft>>

None == <<>>
NoQueue == <<0>>

Init ==
  /\ fsMessages = <<>> /\ fsAcked = {} /\ fsSending = None /\ fsLink = FALSE
  /\ fsWsTask = "none" /\ rxBuf = None /\ fsCall = None /\ fsSeen = <<>>
  /\ fsJobs = NoQueue /\ fsDownloader = "none" /\ fsStopping = FALSE /\ fsManager = "none"
  /\ resetsLeft = MaxResets /\ fsTexts = <<>> /\ fsHandled = {}

-----------------------------------------------------------------------------
(* The server.                                                              *)

NewMessage == Len(fsMessages) + 1

\* A frame without a message, such as the answer to a ping.
Control == 0

\* What is not acknowledged may be sent again, until it is too old.
Sendable == {m \in DOMAIN fsMessages \ fsAcked : m + ResendWindow > Len(fsMessages)}

ServerSends ==
  /\ fsLink /\ fsSending = None
  /\ \E len \in FrameLens :
       \/ /\ NewMessage <= MaxMessages
          /\ \E kind \in Kinds : fsMessages' = Append(fsMessages, kind)
          /\ fsSending' = <<NewMessage, 1, len>>
       \/ \E m \in Sendable \cup {Control} : fsSending' = <<m, 1, len>> /\ UNCHANGED fsMessages
  /\ UNCHANGED <<fsAcked, fsLink, fsWsTask, rxBuf, fsCall, outVars, fsJobs, fsDownloader,
                 fsStopping, fsManager, resetsLeft>>

-----------------------------------------------------------------------------
(* The task of the websocket client: one event after the other.             *)

\* Faulty variant: a fragment goes behind whatever is left in the buffer.
FilledKeepsOld(part, fragment) == Append(rxBuf, fragment)

\* Offset 0 begins a buffer; any other offset needs one.
Filled(part, fragment) ==
  IF part = 1 THEN <<fragment>>
  ELSE IF rxBuf = None THEN None ELSE Append(rxBuf, fragment)

\* WEBSOCKET_EVENT_DATA; without memory for the buffer the frame is lost.
Fragment ==
  /\ fsSending # None /\ fsCall = None
  /\ LET m    == fsSending[1]
         part == fsSending[2]
         len  == fsSending[3]
     IN  \E buf \in {None, Filled(part, <<m, part>>)} :
           IF part = len /\ buf # None
           THEN fsCall' = <<"complete", buf, len>> /\ rxBuf' = None
           ELSE rxBuf' = buf /\ UNCHANGED fsCall
  /\ fsSending' = IF fsSending[2] = fsSending[3] THEN None
                  ELSE [fsSending EXCEPT ![2] = @ + 1]
  /\ UNCHANGED <<serverVars, fsLink, fsWsTask, outVars, fsJobs, fsDownloader, fsStopping,
                 fsManager, resetsLeft>>

\* cap_im_feishu_dedup_check_and_record
Recorded(m) ==
  LET ring == Append(fsSeen, m) IN IF Len(ring) > SeenSize THEN Tail(ring) ELSE ring

\* cap_im_feishu_queue_attachment: a full queue drops the job.
QueueAttachment(m) ==
  fsJobs' = IF fsJobs # NoQueue /\ Len(fsJobs) < JobQueueLen THEN Append(fsJobs, m) ELSE fsJobs

Called(frame) == frame[1][1]

\* A rich text is published as Markdown ...
HasText(m) == fsMessages[m] # "file"

\* ... and each picture in it queued like one that comes alone.
HasAttachment(m) == fsMessages[m] # "text"

\* Faulty variant: seen messages are compared but none is recorded.
HandleMessageNoRecord(m) ==
  IF m \in ToSet(fsSeen) THEN UNCHANGED <<fsSeen, fsTexts, fsJobs>>
  ELSE /\ UNCHANGED fsSeen
       /\ IF HasAttachment(m) THEN QueueAttachment(m) ELSE UNCHANGED fsJobs
       /\ IF HasText(m) THEN fsTexts' \in {fsTexts, Append(fsTexts, m)} ELSE UNCHANGED fsTexts

\* cap_im_feishu_handle_message_event: recorded before anything is done with
\* it; what cannot be published or queued is logged.
HandleMessage(m) ==
  IF m \in ToSet(fsSeen) THEN UNCHANGED <<fsSeen, fsTexts, fsJobs>>
  ELSE /\ fsSeen' = Recorded(m)
       /\ IF HasAttachment(m) THEN QueueAttachment(m) ELSE UNCHANGED fsJobs
       /\ IF HasText(m) THEN fsTexts' \in {fsTexts, Append(fsTexts, m)} ELSE UNCHANGED fsTexts

\* What does not parse, or holds no event, is not answered.
DropFrame ==
  /\ fsCall # None /\ fsCall[1] = "complete"
  /\ fsCall' = None
  /\ UNCHANGED <<serverVars, linkVars, fsWsTask, rxBuf, outVars, fsJobs, fsDownloader,
                 fsStopping, fsManager, resetsLeft>>

\* cap_im_feishu_handle_ws_frame up to the acknowledgement
HandleFrame ==
  /\ fsCall # None /\ fsCall[1] = "complete" /\ Called(fsCall[2]) # Control
  /\ HandleMessage(Called(fsCall[2]))
  /\ fsHandled' = fsHandled \cup {Called(fsCall[2])}
  /\ fsCall' = [fsCall EXCEPT ![1] = "handled"]
  /\ UNCHANGED <<serverVars, linkVars, fsWsTask, rxBuf, fsDownloader, fsStopping, fsManager,
                 resetsLeft>>

\* Faulty variant: acknowledged before it is handled.
AckFrameFirst ==
  /\ fsCall # None /\ Called(fsCall[2]) # Control
  /\ fsAcked' \in {fsAcked, fsAcked \cup {Called(fsCall[2])}}
  /\ fsCall' = IF fsCall[1] = "handled" THEN None ELSE fsCall
  /\ UNCHANGED <<fsMessages, linkVars, fsWsTask, rxBuf, outVars, fsJobs, fsDownloader,
                 fsStopping, fsManager, resetsLeft>>

\* The answer is 200 whatever became of the message; it may not arrive.
AckFrame ==
  /\ fsCall # None /\ fsCall[1] = "handled"
  /\ fsAcked' \in {fsAcked, fsAcked \cup {Called(fsCall[2])}}
  /\ fsCall' = None
  /\ UNCHANGED <<fsMessages, linkVars, fsWsTask, rxBuf, outVars, fsJobs, fsDownloader,
                 fsStopping, fsManager, resetsLeft>>

\* The client connects, and again after a disconnect, by itself.
Connected ==
  /\ fsWsTask = "serve" /\ ~fsLink /\ (fsStopping => fsManager = "closing")
  /\ fsLink' = TRUE
  /\ UNCHANGED <<serverVars, fsSending, fsWsTask, rxBuf, fsCall, outVars, fsJobs, fsDownloader,
                 fsStopping, fsManager, resetsLeft>>

\* The buffer stays as it is.
Disconnected ==
  /\ fsLink /\ fsCall = None
  /\ fsLink' = FALSE /\ fsSending' = None
  /\ UNCHANGED <<serverVars, fsWsTask, rxBuf, fsCall, outVars, fsJobs, fsDownloader,
                 fsStopping, fsManager, resetsLeft>>

-----------------------------------------------------------------------------
(* cap_im_feishu_ws_task                                                    *)

\* cap_im_feishu_pull_ws_config, then a client; a failure is tried again.
WsStartsClient ==
  /\ fsWsTask = "config" /\ ~fsStopping
  /\ fsWsTask' = "serve"
  /\ UNCHANGED <<serverVars, linkVars, rxBuf, fsCall, outVars, fsJobs, fsDownloader, fsStopping,
                 fsManager, resetsLeft>>

\* No connection in time, or a stop: the client's task ends before it is destroyed.
WsDestroysClient ==
  /\ fsWsTask = "serve" /\ fsCall = None
  /\ ~fsLink \/ fsStopping
  /\ fsWsTask' = "config" /\ fsLink' = FALSE /\ fsSending' = None
  /\ UNCHANGED <<serverVars, rxBuf, fsCall, outVars, fsJobs, fsDownloader, fsStopping, fsManager,
                 resetsLeft>>

WsTaskEnds ==
  /\ fsWsTask = "config" /\ fsStopping
  /\ fsWsTask' = "none"
  /\ UNCHANGED <<serverVars, linkVars, rxBuf, fsCall, outVars, fsJobs, fsDownloader, fsStopping,
                 fsManager, resetsLeft>>

-----------------------------------------------------------------------------
(* cap_im_feishu_attachment_task                                            *)

TakeJob ==
  /\ fsDownloader = "waiting" /\ fsJobs \notin {<<>>, NoQueue}
  /\ fsDownloader' = "downloading" /\ fsJobs' = Tail(fsJobs)
  /\ UNCHANGED <<serverVars, linkVars, fsWsTask, rxBuf, fsCall, outVars, fsStopping, fsManager,
                 resetsLeft>>

\* The file arrives or not, in any time.
DownloadAttachment ==
  /\ fsDownloader = "downloading"
  /\ fsDownloader' \in {"saved", "failed"}
  /\ UNCHANGED fsJobs
  /\ UNCHANGED <<serverVars, linkVars, fsWsTask, rxBuf, fsCall, outVars, fsStopping, fsManager,
                 resetsLeft>>

\* Without the file its description is saved and published.
SaveMetadata ==
  /\ fsDownloader = "failed"
  /\ fsDownloader' = "waiting"
  /\ UNCHANGED fsJobs
  /\ UNCHANGED <<serverVars, linkVars, fsWsTask, rxBuf, fsCall, outVars, fsStopping, fsManager,
                 resetsLeft>>

PublishAttachment ==
  /\ fsDownloader = "saved"
  /\ fsDownloader' = "waiting"
  /\ UNCHANGED fsJobs
  /\ UNCHANGED <<serverVars, linkVars, fsWsTask, rxBuf, fsCall, outVars, fsStopping, fsManager,
                 resetsLeft>>

AttachmentTaskEnds ==
  /\ fsDownloader = "waiting" /\ fsJobs = <<>> /\ fsStopping
  /\ fsDownloader' = "none"
  /\ UNCHANGED <<serverVars, linkVars, fsWsTask, rxBuf, fsCall, outVars, fsJobs, fsStopping,
                 fsManager, resetsLeft>>

-----------------------------------------------------------------------------
(* The managing task.                                                       *)

\* cap_im_feishu_start keeps a task left over by a stop that timed out; the
\* flag of that stop is still set, so the task may end before it is cleared.
StartBegins ==
  /\ fsManager = "none" /\ fsWsTask = "none"
  /\ fsJobs' = IF fsJobs = NoQueue THEN <<>> ELSE fsJobs
  /\ fsDownloader' = IF fsDownloader = "none" THEN "waiting" ELSE fsDownloader
  /\ fsManager' = "starting"
  /\ UNCHANGED <<serverVars, linkVars, fsWsTask, rxBuf, fsCall, outVars, fsStopping, resetsLeft>>

StartEnds ==
  /\ fsManager = "starting"
  /\ fsStopping' = FALSE /\ fsManager' = "none"
  /\ \/ fsWsTask' = "config" /\ UNCHANGED <<fsJobs, fsDownloader>>
     \/ fsJobs' = NoQueue /\ fsDownloader' = "none" /\ UNCHANGED fsWsTask
  /\ UNCHANGED <<serverVars, linkVars, rxBuf, fsCall, outVars, resetsLeft>>

StopBegins ==
  /\ fsManager = "none"
  /\ fsWsTask # "none" \/ fsDownloader # "none"
  /\ fsStopping' = TRUE /\ fsManager' = "closing"
  /\ UNCHANGED <<serverVars, linkVars, fsWsTask, rxBuf, fsCall, outVars, fsJobs, fsDownloader,
                 resetsLeft>>

\* esp_websocket_client_stop waits for the client's task.
StopClosesClient ==
  /\ fsManager = "closing" /\ fsCall = None
  /\ fsManager' = "waiting" /\ fsLink' = FALSE /\ fsSending' = None
  /\ UNCHANGED <<serverVars, fsWsTask, rxBuf, fsCall, outVars, fsJobs, fsDownloader, fsStopping,
                 resetsLeft>>

\* A download may take longer than the five seconds.
StopTimesOut ==
  /\ fsManager = "waiting" /\ (fsWsTask # "none" \/ fsDownloader # "none")
  /\ fsManager' = "none"
  /\ UNCHANGED <<serverVars, linkVars, fsWsTask, rxBuf, fsCall, outVars, fsJobs, fsDownloader,
                 fsStopping, resetsLeft>>

\* Faulty variant: only the websocket task is waited for.
StopDeletesQueueEarly ==
  /\ fsManager = "waiting" /\ fsWsTask = "none"
  /\ fsJobs' = NoQueue /\ fsManager' = "none"
  /\ UNCHANGED <<serverVars, linkVars, fsWsTask, rxBuf, fsCall, outVars, fsDownloader,
                 fsStopping, resetsLeft>>

StopDeletesQueue ==
  /\ fsManager = "waiting" /\ fsWsTask = "none" /\ fsDownloader = "none"
  /\ fsJobs' = NoQueue /\ fsManager' = "none"
  /\ UNCHANGED <<serverVars, linkVars, fsWsTask, rxBuf, fsCall, outVars, fsDownloader,
                 fsStopping, resetsLeft>>

DeviceResets ==
  /\ resetsLeft > 0
  /\ resetsLeft' = resetsLeft - 1
  /\ fsSending' = None /\ fsLink' = FALSE /\ fsWsTask' = "none" /\ rxBuf' = None /\ fsCall' = None
  /\ fsSeen' = <<>> /\ fsTexts' = <<>>
  /\ fsJobs' = NoQueue /\ fsDownloader' = "none" /\ fsStopping' = FALSE /\ fsManager' = "none"
  /\ UNCHANGED <<serverVars, fsHandled>>

Next ==
  \/ ServerSends \/ Fragment \/ DropFrame \/ HandleFrame \/ AckFrame \/ Connected \/ Disconnected
  \/ WsStartsClient \/ WsDestroysClient \/ WsTaskEnds
  \/ TakeJob \/ DownloadAttachment \/ SaveMetadata \/ PublishAttachment \/ AttachmentTaskEnds
  \/ StartBegins \/ StartEnds
  \/ StopBegins \/ StopClosesClient \/ StopTimesOut \/ StopDeletesQueue
  \/ DeviceResets

Spec == Init /\ [][Next]_fsVars

-----------------------------------------------------------------------------
Ids == 1..MaxMessages
FragmentSet == (Ids \cup {Control}) \X FrameLens

TypeOK ==
  /\ fsMessages \in Seq(Kinds) /\ fsAcked \subseteq Ids /\ fsHandled \subseteq Ids
  /\ fsSending = None \/ fsSending \in (Ids \cup {Control}) \X FrameLens \X FrameLens
  /\ fsWsTask \in {"none", "config", "serve"}
  /\ rxBuf \in Seq(FragmentSet)
  /\ fsCall = None \/ fsCall \in {"complete", "handled"} \X Seq(FragmentSet) \X FrameLens
  /\ fsSeen \in Seq(Ids) /\ Len(fsSeen) <= SeenSize /\ fsTexts \in Seq(Ids)
  /\ fsJobs \in Seq(Ids) \cup {NoQueue}
  /\ fsDownloader \in {"none", "waiting", "downloading", "saved", "failed"}
  /\ fsManager \in {"none", "starting", "closing", "waiting"}
  /\ {fsLink, fsStopping} \subseteq BOOLEAN /\ resetsLeft \in 0..MaxResets

\* The frame that is handled is one frame of the server, whole, wherever
\* connections broke or memory ran out (cap_im_feishu.c:2408).
FramesWhole ==
  fsCall # None => \E m \in Ids \cup {Control} : fsCall[2] = [i \in 1..fsCall[3] |-> <<m, i>>]

\* A message that the server will not deliver again has been looked at, in
\* this boot or an earlier one (cap_im_feishu.c:2362).
AckedIsHandled == fsAcked \subseteq fsHandled

\* A text is published once per boot however often it is delivered
\* (cap_im_feishu.c:2207).
TextsOnce == \A i, j \in DOMAIN fsTexts : i # j => fsTexts[i] # fsTexts[j]

\* The queue stays as long as a task receives from it or the callback may put
\* a job into it, also after a stop that timed out and a start after it
\* (cap_im_feishu.c:3308).
QueueOutlivesTasks == fsDownloader # "none" \/ fsCall # None => fsJobs # NoQueue
=============================================================================
