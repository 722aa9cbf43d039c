-------------------------------- MODULE ImWechat --------------------------------
(***************************************************************************)
(* The WeChat gateway (cap_im_wechat.c): the task that polls for messages  *)
(* and the task that configures, starts and stops it.  A poll presents the *)
(* cursor of the last answer; the server forgets what is before the cursor *)
(* and, asked without one, goes on after what it has forgotten.  Cursor,   *)
(* credentials and the ring of handled messages are in one heap block that *)
(* a stop frees.  The login by QR code is in module WechatLogin.           *)
(***************************************************************************)
EXTENDS Naturals, Sequences, SequencesExt, FiniteSetsExt

CONSTANTS
  MaxMessages,   \* bound on the messages
  MaxLives,      \* bound on the stops and resets that lose the state
  SeenSize       \* CAP_IM_WECHAT_DEDUP_CACHE_SIZE

WechatAssumption == {MaxMessages, MaxLives, SeenSize} \subseteq Nat \ {0}

Kinds == {"text", "media"}

VARIABLES
  wxMessages,    \* server: kinds of the messages
  wxForgotten,   \* server: messages up to here are no longer returned
  stateHeld,     \* s_wechat_state # NULL
  wxConfigured,  \* configured
  syncBuf,       \* sync_buf: the cursor, 0 for none
  wxSeen,        \* the ring of seen_msg_keys, oldest first
  wxPollTask,    \* none, idle, asking or how far a message is
  wxBatch,       \* messages of the answer still to be handled
  wxStopping,    \* stop_requested
  wxStopper,     \* gateway_stop is waiting
  livesLeft,     \* losses of the state still to come
  wxTexts,       \* history: texts published since the state was allocated
  wxHandled      \* history: messages looked at

serverVars == <<wxMessages, wxForgotten>>
stateVars == <<stateHeld, wxConfigured, syncBuf, wxSeen, wxTexts>>
pollVars == <<wxPollTask, wxBatch>>
wxVars == <<serverVars, stateVars, pollVars, wxStopping, wxStopper, livesLeft, wxHandled>>

Init ==
  /\ wxMessages = <<>> /\ wxForgotten = 0
  /\ stateHeld = FALSE /\ wxConfigured = FALSE /\ syncBuf = 0 /\ wxSeen = <<>> /\ wxTexts = <<>>
  /\ wxPollTask = "none" /\ wxBatch = <<>> /\ wxStopping = FALSE /\ wxStopper = FALSE
  /\ livesLeft = MaxLives /\ wxHandled = {}

-----------------------------------------------------------------------------
Arrive ==
  /\ Len(wxMessages) < MaxMessages
  /\ \E kind \in Kinds : wxMessages' = Append(wxMessages, kind)
  /\ UNCHANGED <<wxForgotten, stateVars, pollVars, wxStopping, wxStopper, livesLeft, wxHandled>>

\* cap_im_wechat_poll_once presents the cursor.
Poll ==
  /\ wxPollTask = "idle" /\ wxConfigured /\ ~wxStopping
  /\ wxPollTask' = "asking"
  /\ wxForgotten' = Max({wxForgotten, syncBuf})
  /\ UNCHANGED <<wxMessages, stateVars, wxBatch, wxStopping, wxStopper, livesLeft, wxHandled>>

\* The new cursor is kept before any message is looked at; an answer that is
\* lost, an error or a lack of memory for the cursor leaves everything alone.
Answer ==
  /\ wxPollTask = "asking"
  /\ \/ \E n \in wxForgotten..Len(wxMessages) :
          /\ wxBatch' = [i \in 1..(n - wxForgotten) |-> wxForgotten + i]
          /\ syncBuf' = n
          /\ wxPollTask' = IF n = wxForgotten THEN "idle" ELSE "handling"
     \/ wxPollTask' = "idle" /\ UNCHANGED <<wxBatch, syncBuf>>
  /\ UNCHANGED <<serverVars, stateHeld, wxConfigured, wxSeen, wxTexts, wxStopping, wxStopper,
                 livesLeft, wxHandled>>

\* cap_im_wechat_dedup_check_and_record
Recorded(m) ==
  LET ring == Append(wxSeen, m) IN IF Len(ring) > SeenSize THEN Tail(ring) ELSE ring

NextMessage ==
  /\ wxBatch' = Tail(wxBatch)
  /\ wxPollTask' = IF wxBatch' = <<>> THEN "idle" ELSE "handling"
  /\ wxHandled' = wxHandled \cup {Head(wxBatch)}

\* cap_im_wechat_process_message: recorded first; one seen before is skipped.
BeginMessage ==
  /\ wxPollTask = "handling"
  /\ LET m == Head(wxBatch)
     IN  IF m \in ToSet(wxSeen)
         THEN NextMessage /\ UNCHANGED <<wxSeen, wxTexts>>
         ELSE /\ wxSeen' = Recorded(m)
              /\ wxPollTask' = IF wxMessages[m] = "media" THEN "downloading" ELSE "publishing"
              /\ UNCHANGED <<wxTexts, wxBatch, wxHandled>>
  /\ UNCHANGED <<serverVars, stateHeld, wxConfigured, syncBuf, wxStopping, wxStopper, livesLeft>>

\* A medium is downloaded and decrypted, in any time; a failure is logged.
DownloadMedia ==
  /\ wxPollTask = "downloading"
  /\ wxPollTask' \in {"saving", "publishing"}
  /\ UNCHANGED <<serverVars, stateVars, wxBatch, wxStopping, wxStopper, livesLeft, wxHandled>>

SaveMedia ==
  /\ wxPollTask = "saving"
  /\ wxPollTask' = "publishing"
  /\ UNCHANGED <<serverVars, stateVars, wxBatch, wxStopping, wxStopper, livesLeft, wxHandled>>

\* Faulty variant: what fails to be published ends the batch.
PublishTextEndsBatch ==
  /\ wxPollTask = "publishing"
  /\ \/ wxTexts' = Append(wxTexts, Head(wxBatch)) /\ NextMessage
     \/ UNCHANGED wxTexts /\ wxBatch' = <<>> /\ wxPollTask' = "idle" /\ UNCHANGED wxHandled
  /\ UNCHANGED <<serverVars, stateHeld, wxConfigured, syncBuf, wxSeen, wxStopping, wxStopper,
                 livesLeft>>

\* The text of the message, if it has any; what fails is not tried again.
PublishText ==
  /\ wxPollTask = "publishing"
  /\ wxTexts' \in {wxTexts, Append(wxTexts, Head(wxBatch))}
  /\ NextMessage
  /\ UNCHANGED <<serverVars, stateHeld, wxConfigured, syncBuf, wxSeen, wxStopping, wxStopper,
                 livesLeft>>

\* cap_im_wechat_poll_task looks at the flag between polls only.
PollTaskEnds ==
  /\ wxPollTask = "idle" /\ wxStopping
  /\ wxPollTask' = "none"
  /\ UNCHANGED <<serverVars, stateVars, wxBatch, wxStopping, wxStopper, livesLeft, wxHandled>>

-----------------------------------------------------------------------------
(* The managing task.                                                       *)

\* cap_im_wechat_set_client_config
SetClientConfig ==
  /\ ~wxStopper
  /\ stateHeld' = TRUE /\ wxConfigured' = TRUE
  /\ UNCHANGED <<serverVars, syncBuf, wxSeen, wxTexts, pollVars, wxStopping, wxStopper,
                 livesLeft, wxHandled>>

\* A start while the old task still runs leaves the flag set.
GatewayStart ==
  /\ ~wxStopper /\ wxPollTask = "none"
  /\ stateHeld' = TRUE /\ wxStopping' = FALSE /\ wxPollTask' = "idle"
  /\ UNCHANGED <<serverVars, wxConfigured, syncBuf, wxSeen, wxTexts, wxBatch, wxStopper,
                 livesLeft, wxHandled>>

StopBegins ==
  /\ ~wxStopper /\ stateHeld
  /\ wxStopping' = TRUE /\ wxStopper' = TRUE
  /\ UNCHANGED <<serverVars, stateVars, pollVars, livesLeft, wxHandled>>

\* A poll may take much longer than the five seconds.
StopTimesOut ==
  /\ wxStopper /\ wxPollTask # "none"
  /\ wxStopper' = FALSE
  /\ UNCHANGED <<serverVars, stateVars, pollVars, wxStopping, livesLeft, wxHandled>>

StateLost ==
  /\ livesLeft > 0 /\ livesLeft' = livesLeft - 1
  /\ stateHeld' = FALSE /\ wxConfigured' = FALSE /\ syncBuf' = 0 /\ wxSeen' = <<>>
  /\ wxTexts' = <<>> /\ wxStopping' = FALSE /\ wxStopper' = FALSE

\* Faulty variant: the poll is not waited for.
StopFreesStateEarly ==
  /\ wxStopper
  /\ StateLost
  /\ UNCHANGED <<serverVars, pollVars, wxHandled>>

\* cap_im_wechat_free_state at the end of a stop
StopFreesState ==
  /\ wxStopper /\ wxPollTask = "none"
  /\ StateLost
  /\ UNCHANGED <<serverVars, pollVars, wxHandled>>

DeviceResets ==
  /\ StateLost
  /\ wxPollTask' = "none" /\ wxBatch' = <<>>
  /\ UNCHANGED <<serverVars, wxHandled>>

Next ==
  \/ Arrive \/ Poll \/ Answer \/ BeginMessage \/ DownloadMedia \/ SaveMedia \/ PublishText
  \/ PollTaskEnds
  \/ SetClientConfig \/ GatewayStart
  \/ StopBegins \/ StopTimesOut \/ StopFreesState
  \/ DeviceResets

Spec == Init /\ [][Next]_wxVars

-----------------------------------------------------------------------------
Ids == 1..MaxMessages

TypeOK ==
  /\ wxMessages \in Seq(Kinds) /\ wxForgotten \in 0..MaxMessages /\ syncBuf \in 0..MaxMessages
  /\ {stateHeld, wxConfigured, wxStopping, wxStopper} \subseteq BOOLEAN
  /\ wxSeen \in Seq(Ids) /\ Len(wxSeen) <= SeenSize
  /\ wxPollTask \in {"none", "idle", "asking", "handling", "downloading", "saving", "publishing"}
  /\ wxBatch \in Seq(Ids) /\ (wxPollTask \in {"none", "idle", "asking"} <=> wxBatch = <<>>)
  /\ livesLeft \in 0..MaxLives /\ wxTexts \in Seq(Ids) /\ wxHandled \subseteq Ids

\* What the server has forgotten has been looked at: although the cursor moves
\* before the messages are handled, it is presented after (cap_im_wechat.c:1594).
ForgottenIsHandled == 1..wxForgotten \subseteq wxHandled

\* A text is published once while the state lives, and in the server's order
\* (cap_im_wechat.c:1482).
TextsOnceInOrder == \A i, j \in DOMAIN wxTexts : i < j => wxTexts[i] < wxTexts[j]

\* The state is not freed under the polling task (cap_im_wechat.c:2238).
StateOutlivesTask == wxPollTask # "none" => stateHeld
=============================================================================
