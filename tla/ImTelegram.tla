------------------------------ MODULE ImTelegram ------------------------------
(***************************************************************************)
(* The Telegram gateway (cap_im_tg.c): a task that polls the Bot API for   *)
(* updates, a task that downloads attachments, and the task that starts    *)
(* and stops them or sets the token.  The server numbers the updates of a  *)
(* bot and forgets those below the offset of a poll; the device keeps the  *)
(* offset and a ring of handled updates in RAM only.                       *)
(***************************************************************************)
EXTENDS Naturals, Sequences, SequencesExt, FiniteSetsExt

CONSTANTS
  Bots,            \* tokens the device may be given
  MaxUpdates,      \* bound on the updates of all bots
  RingSize,        \* CAP_IM_TG_DEDUP_CACHE_SIZE
  JobQueueLen,     \* CAP_IM_TG_ATTACHMENT_QUEUE_LEN
  MaxTokens,       \* bound on set_token calls and resets of the device
  NoBot

TelegramAssumption ==
  /\ {MaxUpdates, RingSize, JobQueueLen, MaxTokens} \subseteq Nat \ {0}
  /\ IsFiniteSet(Bots) /\ NoBot \notin Bots

\* An update without a message, with a text, with an attachment.
UpdateKinds == {"other", "text", "file"}
Downloaders == {1, 2}

VARIABLES
  updates,       \* server, per bot: kinds of its updates; an update's id is its place
  forgotten,     \* server, per bot: updates up to here are no longer returned
  botToken,      \* bot_token, or NoBot
  tokensLeft,    \* set_token calls and resets still to come
  nextUpdateId,  \* next_update_id, 0 for none yet
  seenUpdates,   \* the ring of seen_update_keys, oldest first
  pollTask,      \* none, polling or handling a batch
  polled,        \* the bot the poll in progress is for
  polledBatch,   \* ids of the batch still to be handled
  tgStopping,    \* stop_requested
  jobQueue,      \* attachment_queue: ids, or none
  downloaders,   \* the attachment tasks: none, waiting, asking or saving
  attachHandle,  \* attachment_task # NULL
  tgStopper,     \* where gateway_stop is
  textsOut,      \* history: texts published since boot or the last token
  handledUpdates,\* history, per bot: updates looked at
  tokenMixed,    \* history: a token was set while a poll was in progress
  outlived       \* history: an attachment task outlived a stop

serverVars == <<updates, forgotten>>
offsetVars == <<nextUpdateId, seenUpdates, textsOut>>
jobVars == <<jobQueue, downloaders, attachHandle, outlived>>
tgVars == <<serverVars, botToken, tokensLeft, offsetVars, pollTask, polled, polledBatch,
            tgStopping, jobVars, tgStopper, handledUpdates, tokenMixed>>

NoQueue == <<0>>

Init ==
  /\ updates = [b \in Bots |-> <<>>] /\ forgotten = [b \in Bots |-> 0]
  /\ botToken = NoBot /\ tokensLeft = MaxTokens
  /\ nextUpdateId = 0 /\ seenUpdates = <<>>
  /\ pollTask = "none" /\ polled = NoBot /\ polledBatch = <<>>
  /\ tgStopping = FALSE
  /\ jobQueue = NoQueue /\ downloaders = [d \in Downloaders |-> "none"]
  /\ attachHandle = FALSE /\ tgStopper = "none"
  /\ textsOut = <<>> /\ handledUpdates = [b \in Bots |-> {}]
  /\ tokenMixed = FALSE /\ outlived = FALSE

-----------------------------------------------------------------------------
(* The server.                                                              *)

AllUpdates == {u \in Bots \X (1..MaxUpdates) : u[2] <= Len(updates[u[1]])}

Arrive(b) ==
  /\ Cardinality(AllUpdates) < MaxUpdates
  /\ \E kind \in UpdateKinds : updates' = [updates EXCEPT ![b] = Append(@, kind)]
  /\ UNCHANGED <<forgotten, botToken, tokensLeft, offsetVars, pollTask, polled, polledBatch,
                 tgStopping, jobVars, tgStopper, handledUpdates, tokenMixed>>

-----------------------------------------------------------------------------
(* The polling task.                                                        *)

\* cap_im_tg_poll_once sends the offset; the answer may come late or not at all.
Poll ==
  /\ pollTask = "idle" /\ ~tgStopping
  /\ pollTask' = "polling" /\ polled' = botToken
  /\ forgotten' = [forgotten EXCEPT ![botToken] =
                     IF nextUpdateId > 0 THEN Max({@, nextUpdateId - 1}) ELSE @]
  /\ UNCHANGED <<updates, botToken, tokensLeft, offsetVars, polledBatch, tgStopping,
                 jobVars, tgStopper, handledUpdates, tokenMixed>>

Answer ==
  /\ pollTask = "polling"
  /\ \E n \in forgotten[polled]..Len(updates[polled]) :
       polledBatch' = [i \in 1..(n - forgotten[polled]) |-> forgotten[polled] + i]
  /\ pollTask' = IF polledBatch' = <<>> THEN "idle" ELSE "handling"
  /\ UNCHANGED <<serverVars, botToken, tokensLeft, offsetVars, polled, tgStopping,
                 jobVars, tgStopper, handledUpdates, tokenMixed>>

\* Faulty variant: the offset skips the update after this one.
NextUpdateIdSkips(id) == IF id >= nextUpdateId THEN id + 2 ELSE nextUpdateId

\* The offset after an update that holds a message.
NextUpdateId(id) == IF id >= nextUpdateId THEN id + 1 ELSE nextUpdateId

\* cap_im_tg_dedup_check_and_record
Recorded(id) ==
  LET ring == Append(seenUpdates, id)
  IN  IF Len(ring) > RingSize THEN Tail(ring) ELSE ring

\* Faulty variant: the offset is left alone, the ring alone tells what is old.
HandleUpdateNoOffset ==
  /\ pollTask = "handling"
  /\ LET id   == Head(polledBatch)
         kind == updates[polled][id]
         new  == kind # "other" /\ id \notin ToSet(seenUpdates)
     IN  /\ UNCHANGED nextUpdateId
         /\ seenUpdates' = IF new THEN Recorded(id) ELSE seenUpdates
         /\ textsOut' = IF new /\ kind = "text" THEN Append(textsOut, id) ELSE textsOut
         /\ handledUpdates' = [handledUpdates EXCEPT ![polled] = @ \cup {id}]
  /\ polledBatch' = Tail(polledBatch)
  /\ pollTask' = IF polledBatch' = <<>> THEN "idle" ELSE "handling"
  /\ UNCHANGED <<serverVars, botToken, tokensLeft, polled, tgStopping, jobVars, tgStopper,
                 tokenMixed>>

\* cap_im_tg_queue_attachment: a full queue drops the job.
QueueAttachment(id) ==
  jobQueue' = IF jobQueue # NoQueue /\ Len(jobQueue) < JobQueueLen
              THEN Append(jobQueue, id) ELSE jobQueue

\* cap_im_tg_handle_update: an update without a message does not move the
\* offset; one seen before only moves it.  A failed publish is logged.
HandleUpdate ==
  /\ pollTask = "handling"
  /\ LET id   == Head(polledBatch)
         kind == updates[polled][id]
         new  == kind # "other" /\ id \notin ToSet(seenUpdates)
     IN  /\ nextUpdateId' = IF kind # "other" THEN NextUpdateId(id) ELSE nextUpdateId
         /\ seenUpdates' = IF new THEN Recorded(id) ELSE seenUpdates
         /\ \/ textsOut' = IF new /\ kind = "text" THEN Append(textsOut, id) ELSE textsOut
            \/ new /\ kind = "text" /\ UNCHANGED textsOut
         /\ IF new /\ kind = "file" THEN QueueAttachment(id) ELSE UNCHANGED jobQueue
         /\ handledUpdates' = [handledUpdates EXCEPT ![polled] = @ \cup {id}]
  /\ polledBatch' = Tail(polledBatch)
  /\ pollTask' = IF polledBatch' = <<>> THEN "idle" ELSE "handling"
  /\ UNCHANGED <<serverVars, botToken, tokensLeft, polled, tgStopping, downloaders,
                 attachHandle, outlived, tgStopper, tokenMixed>>

\* cap_im_tg_poll_task looks at the flag between polls only.
PollTaskEnds ==
  /\ pollTask = "idle" /\ tgStopping
  /\ pollTask' = "none" /\ polled' = NoBot
  /\ UNCHANGED <<serverVars, botToken, tokensLeft, offsetVars, polledBatch, tgStopping,
                 jobVars, tgStopper, handledUpdates, tokenMixed>>

-----------------------------------------------------------------------------
(* The attachment task.                                                     *)

TakeJob(d) ==
  /\ downloaders[d] = "waiting" /\ jobQueue \notin {<<>>, NoQueue}
  /\ jobQueue' = Tail(jobQueue)
  /\ downloaders' = [downloaders EXCEPT ![d] = "asking"]
  /\ UNCHANGED <<serverVars, botToken, tokensLeft, offsetVars, pollTask, polled, polledBatch,
                 tgStopping, attachHandle, outlived, tgStopper, handledUpdates, tokenMixed>>

\* The path of the file is asked for; without it the job is over.
GetFilePath(d) ==
  /\ downloaders[d] = "asking"
  /\ \E to \in {"saving", "waiting"} : downloaders' = [downloaders EXCEPT ![d] = to]
  /\ UNCHANGED <<serverVars, botToken, tokensLeft, offsetVars, pollTask, polled, polledBatch,
                 tgStopping, jobQueue, attachHandle, outlived, tgStopper, handledUpdates,
                 tokenMixed>>

\* cap_im_tg_save_attachment: the download may take any time or fail.
SaveAttachment(d) ==
  /\ downloaders[d] = "saving"
  /\ downloaders' = [downloaders EXCEPT ![d] = "waiting"]
  /\ UNCHANGED <<serverVars, botToken, tokensLeft, offsetVars, pollTask, polled, polledBatch,
                 tgStopping, jobQueue, attachHandle, outlived, tgStopper, handledUpdates,
                 tokenMixed>>

\* Only a task that finds the queue empty looks at the flag.
AttachmentTaskEnds(d) ==
  /\ downloaders[d] = "waiting" /\ jobQueue = <<>> /\ tgStopping
  /\ downloaders' = [downloaders EXCEPT ![d] = "none"]
  /\ attachHandle' = FALSE
  /\ UNCHANGED <<serverVars, botToken, tokensLeft, offsetVars, pollTask, polled, polledBatch,
                 tgStopping, jobQueue, outlived, tgStopper, handledUpdates, tokenMixed>>

-----------------------------------------------------------------------------
(* The managing task.                                                       *)

AnyDownloader == \E d \in Downloaders : downloaders[d] # "none"

\* cap_im_tg_gateway_start; without a token it does nothing.  A task left over
\* by a stop that timed out goes on next to the new one.
GatewayStart ==
  /\ tgStopper = "none" /\ botToken # NoBot /\ pollTask = "none"
  /\ tgStopping' = FALSE
  /\ jobQueue' = IF jobQueue = NoQueue THEN <<>> ELSE jobQueue
  /\ \E d \in Downloaders :
       /\ downloaders[d] = "none"
       /\ downloaders' = [downloaders EXCEPT ![d] = "waiting"]
  /\ attachHandle' = TRUE
  /\ pollTask' = "idle"
  /\ outlived' = (outlived \/ AnyDownloader)
  /\ UNCHANGED <<serverVars, botToken, tokensLeft, offsetVars, polled, polledBatch, tgStopper,
                 handledUpdates, tokenMixed>>

StopBegins ==
  /\ tgStopper = "none" /\ pollTask # "none"
  /\ tgStopping' = TRUE /\ tgStopper' = "poll"
  /\ UNCHANGED <<serverVars, botToken, tokensLeft, offsetVars, pollTask, polled, polledBatch,
                 jobVars, handledUpdates, tokenMixed>>

\* Both waits end after five seconds in all, a poll may take twenty-five.
StopTimesOut ==
  /\ tgStopper # "none"
  /\ tgStopper' = "none"
  /\ UNCHANGED <<serverVars, botToken, tokensLeft, offsetVars, pollTask, polled, polledBatch,
                 tgStopping, jobVars, handledUpdates, tokenMixed>>

StopSeesPollEnd ==
  /\ tgStopper = "poll" /\ pollTask = "none"
  /\ tgStopper' = "attachment"
  /\ UNCHANGED <<serverVars, botToken, tokensLeft, offsetVars, pollTask, polled, polledBatch,
                 tgStopping, jobVars, handledUpdates, tokenMixed>>

\* Faulty variant: the queue goes without waiting for the attachment task.
StopDeletesQueueEarly ==
  /\ tgStopper = "attachment"
  /\ jobQueue' = NoQueue /\ tgStopper' = "none"
  /\ UNCHANGED <<serverVars, botToken, tokensLeft, offsetVars, pollTask, polled, polledBatch,
                 tgStopping, downloaders, attachHandle, outlived, handledUpdates, tokenMixed>>

\* The end of cap_im_tg_gateway_stop
StopDeletesQueue ==
  /\ tgStopper = "attachment" /\ ~attachHandle
  /\ jobQueue' = NoQueue /\ tgStopper' = "none"
  /\ UNCHANGED <<serverVars, botToken, tokensLeft, offsetVars, pollTask, polled, polledBatch,
                 tgStopping, downloaders, attachHandle, outlived, handledUpdates, tokenMixed>>

\* cap_im_tg_set_token, at any time.
SetToken(b) ==
  /\ tgStopper = "none" /\ tokensLeft > 0
  /\ botToken' = b /\ tokensLeft' = tokensLeft - 1
  /\ nextUpdateId' = 0 /\ seenUpdates' = <<>> /\ textsOut' = <<>>
  /\ tokenMixed' = (tokenMixed \/ pollTask \in {"polling", "handling"})
  /\ UNCHANGED <<serverVars, pollTask, polled, polledBatch, tgStopping, jobVars, tgStopper,
                 handledUpdates>>

\* The device resets and gets its token out of the settings again.
DeviceResets ==
  /\ tokensLeft > 0 /\ botToken # NoBot
  /\ tokensLeft' = tokensLeft - 1
  /\ nextUpdateId' = 0 /\ seenUpdates' = <<>> /\ textsOut' = <<>>
  /\ pollTask' = "none" /\ polled' = NoBot /\ polledBatch' = <<>> /\ tgStopping' = FALSE
  /\ jobQueue' = NoQueue /\ downloaders' = [d \in Downloaders |-> "none"]
  /\ attachHandle' = FALSE /\ tgStopper' = "none" /\ outlived' = FALSE
  /\ UNCHANGED <<serverVars, botToken, handledUpdates, tokenMixed>>

Next ==
  \/ \E b \in Bots : Arrive(b) \/ SetToken(b)
  \/ Poll \/ Answer \/ HandleUpdate \/ PollTaskEnds
  \/ \E d \in Downloaders : TakeJob(d) \/ GetFilePath(d) \/ SaveAttachment(d) \/ AttachmentTaskEnds(d)
  \/ GatewayStart \/ StopBegins \/ StopTimesOut \/ StopSeesPollEnd \/ StopDeletesQueue
  \/ DeviceResets

Spec == Init /\ [][Next]_tgVars

-----------------------------------------------------------------------------
Ids == 1..MaxUpdates

TypeOK ==
  /\ updates \in [Bots -> Seq(UpdateKinds)] /\ forgotten \in [Bots -> 0..MaxUpdates]
  /\ botToken \in Bots \cup {NoBot} /\ tokensLeft \in 0..MaxTokens
  /\ nextUpdateId \in 0..(MaxUpdates + 1) /\ seenUpdates \in Seq(Ids)
  /\ Len(seenUpdates) <= RingSize
  /\ pollTask \in {"none", "idle", "polling", "handling"}
  /\ polled \in Bots \cup {NoBot} /\ polledBatch \in Seq(Ids)
  /\ pollTask = "handling" <=> polledBatch # <<>>
  /\ jobQueue \in Seq(Ids) \cup {NoQueue}
  /\ downloaders \in [Downloaders -> {"none", "waiting", "asking", "saving"}]
  /\ tgStopper \in {"none", "poll", "attachment"}
  /\ {tgStopping, attachHandle, tokenMixed, outlived} \subseteq BOOLEAN
  /\ textsOut \in Seq(Ids) /\ handledUpdates \in [Bots -> SUBSET Ids]

\* What the server has forgotten has been looked at by the device, through
\* lost answers, resets, stops and new tokens, unless a token was set during a
\* poll (cap_im_tg.c:627 and 1112).
ForgottenIsHandled ==
  ~tokenMixed => \A b \in Bots : 1..forgotten[b] \subseteq handledUpdates[b]

\* A text is published once per boot and token, and in the server's order
\* (cap_im_tg.c:631).
TextsOnceInOrder ==
  ~tokenMixed => \A i, j \in DOMAIN textsOut : i < j => textsOut[i] < textsOut[j]

\* The attachment queue stays as long as a task receives from it, unless a
\* start followed a stop that had given up waiting for that task
\* (cap_im_tg.c:1226).
QueueOutlivesTasks == AnyDownloader /\ ~outlived => jobQueue # NoQueue
=============================================================================
