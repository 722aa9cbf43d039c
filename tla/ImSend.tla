-------------------------------- MODULE ImSend --------------------------------
(***************************************************************************)
(* Outgoing messages of the four chat platforms of cap_im_platform.  A     *)
(* call of a send function is a sequence of requests to the platform's     *)
(* server: the chunks of a text, an upload and the message that shows it.  *)
(* An answer may be lost after the server has accepted the request; on a   *)
(* client from the pool the transport then sends the request again.  The   *)
(* callers (the router's action, the model's call, the console) share the  *)
(* cached access token of QQ and of Feishu and WeChat's count of           *)
(* consecutive stage messages.  No platform knows of another: a behaviour  *)
(* is about one of them.                                                   *)
(***************************************************************************)
EXTENDS Naturals, Sequences, FiniteSets

CONSTANTS
  Callers,         \* tasks that send
  Chats,
  MaxChunks,       \* bound on the chunks of a text
  StageLimit,      \* CAP_IM_WECHAT_STAGE_LIMIT
  StageMax,        \* UINT8_MAX
  StageCacheSize,  \* CAP_IM_WECHAT_STAGE_CACHE_SIZE
  MaxMissed        \* bound on the stage messages of a chat sent without the lock

SendAssumption ==
  /\ {MaxChunks, StageLimit, StageMax, StageCacheSize} \subseteq Nat \ {0}
  /\ StageLimit + 1 < StageMax /\ MaxMissed \in Nat
  /\ IsFiniteSet(Chats) /\ "none" \notin Chats

Platforms == {"telegram", "qq", "feishu", "wechat"}

VARIABLES
  platform,     \* the platform this behaviour is about
  job,          \* per caller: the call it is in
  accessToken,  \* the cached token: none, good or revoked by the server
  stageCache,   \* WeChat: chats and their consecutive stage messages
  stageIdx,     \* the slot a new chat takes
  stagesShown,  \* history: stage messages let through since a chat's last other one
  missed        \* history: those of them let through without the lock

vars == <<platform, job, accessToken, stageCache, stageIdx, stagesShown, missed>>

Request == [what : {"chunk", "card", "url", "upload", "media"}, n : 0..MaxChunks]
R(what, n) == [what |-> what, n |-> n]

\* `done' is what the server has accepted, `extra' how often it accepted the
\* request in hand in tries that were repeated; `lost', that an answer to it, or in
\* a call that starts with a card any answer, got lost.
Idle == [pc |-> "idle", kind |-> "none", plan |-> <<>>, todo |-> <<>>, done |-> <<>>,
         extra |-> 0, retried |-> FALSE, failed |-> FALSE, lost |-> FALSE]

Init ==
  /\ platform \in Platforms
  /\ job = [k \in Callers |-> Idle]
  /\ accessToken = "none"
  /\ stageCache = [i \in 1..StageCacheSize |-> [chat |-> "none", count |-> 0]]
  /\ stageIdx = 1
  /\ stagesShown = [c \in Chats |-> 0] /\ missed = [c \in Chats |-> 0]

wechatStage == <<stageCache, stageIdx, stagesShown, missed>>

-----------------------------------------------------------------------------
(* The requests of a call.                                                  *)

Chunks(n) == [i \in 1..n |-> R("chunk", i)]

\* The caption travels with the picture.
TgMedia(n) == <<R("media", 0)>>
QqMedia(n) == <<R("upload", 0), R("media", 0)>>
\* The caption follows as a text of its own ...
FeishuMedia(n) == <<R("upload", 0), R("media", 0)>> \o Chunks(n)
\* ... or goes ahead of the picture.
WechatMedia(n) == Chunks(n) \o <<R("url", 0), R("upload", 0), R("media", 0)>>
\* The capability tries a card with the whole text before the plain text.
FeishuMessage(n) == <<R("card", 0)>> \o Chunks(n)

Call(k, kind, requests) ==
  /\ job[k].pc = "idle"
  /\ job' = [job EXCEPT ![k] = [Idle EXCEPT !.pc = "request", !.kind = kind,
                                            !.plan = requests, !.todo = requests]]
  /\ UNCHANGED <<platform, accessToken>>

SendText(k, p) ==
  /\ platform = p
  /\ \E n \in 1..MaxChunks : Call(k, "text", Chunks(n))
  /\ UNCHANGED wechatStage

\* cap_im_*_send_text of each platform: a text is cut into chunks.
TgSendText(k) == SendText(k, "telegram")
QqSendText(k) == SendText(k, "qq")
FeishuSendText(k) == SendText(k, "feishu")
WechatSendText(k) == SendText(k, "wechat")

SendMedia(k, p, Media(_)) ==
  /\ platform = p
  /\ \E n \in 0..MaxChunks : Call(k, "media", Media(n))
  /\ UNCHANGED wechatStage

\* The capabilities that send a picture or a file with a caption.
TgSendMedia(k) == SendMedia(k, "telegram", TgMedia)
QqSendMedia(k) == SendMedia(k, "qq", QqMedia)
FeishuSendMedia(k) == SendMedia(k, "feishu", FeishuMedia)
WechatSendImage(k) == SendMedia(k, "wechat", WechatMedia)

FeishuSendMessage(k) ==
  /\ platform = "feishu"
  /\ \E n \in 1..MaxChunks : Call(k, "card", FeishuMessage(n))
  /\ UNCHANGED wechatStage

-----------------------------------------------------------------------------
(* WeChat's limit of consecutive stage messages, decided under its lock.    *)

Entry(chat) == {i \in DOMAIN stageCache : stageCache[i].chat = chat}

\* The slot of a chat; a new one takes the next slot of the ring.
SlotOf(chat) == IF Entry(chat) # {} THEN CHOOSE i \in Entry(chat) : TRUE ELSE stageIdx

CountOf(chat) == IF Entry(chat) # {} THEN stageCache[SlotOf(chat)].count ELSE 0

Noted(chat, count) ==
  /\ stageCache' = [stageCache EXCEPT ![SlotOf(chat)] = [chat |-> chat, count |-> count]]
  /\ stageIdx' = IF Entry(chat) # {} THEN stageIdx ELSE (stageIdx % StageCacheSize) + 1

\* Faulty variant: the count wraps around.
StageCountWraps(chat) == (CountOf(chat) + 1) % (StageMax + 1)

\* Faulty variant: nothing stops the count at the end of its type.
StageCountGrows(chat) == CountOf(chat) + 1

\* The count stays at the largest value it can have.
StageCount(chat) == IF CountOf(chat) < StageMax THEN CountOf(chat) + 1 ELSE CountOf(chat)

\* A stage message is sent up to the limit, replaced by a notice once, and
\* skipped from then on; the call returns ESP_OK all the same.
StageLimited(k, chat) ==
  LET count == StageCount(chat)
  IN  /\ Noted(chat, count)
      /\ IF count <= StageLimit + 1
         THEN /\ Call(k, "text", Chunks(1))
              /\ stagesShown' = [stagesShown EXCEPT ![chat] = @ + 1]
         ELSE job[k].pc = "idle" /\ UNCHANGED <<platform, job, accessToken, stagesShown>>
      /\ UNCHANGED missed

\* A login keeps the lock for longer than a sender waits: the message is sent
\* and not counted.
StageUncounted(k, chat) ==
  /\ \A c \in Chats : missed[c] < MaxMissed
  /\ missed' = [missed EXCEPT ![chat] = @ + 1]
  /\ Call(k, "text", Chunks(1))
  /\ stagesShown' = [stagesShown EXCEPT ![chat] = @ + 1]
  /\ UNCHANGED <<stageCache, stageIdx>>

SendStage(k, chat) ==
  platform = "wechat" /\ (StageLimited(k, chat) \/ StageUncounted(k, chat))

\* Any other message of the capability ends the sequence, as far as the count
\* goes only with the lock.
SendFinal(k, chat) ==
  /\ platform = "wechat"
  /\ Noted(chat, 0) \/ UNCHANGED <<stageCache, stageIdx>>
  /\ \E n \in 1..MaxChunks : Call(k, "text", Chunks(n))
  /\ stagesShown' = [stagesShown EXCEPT ![chat] = 0]
  /\ missed' = [missed EXCEPT ![chat] = 0]

-----------------------------------------------------------------------------
(* What becomes of a call when a request of it is over.                     *)

Cut(s) == IF s # <<>> /\ s[1].what # "chunk" THEN <<>> ELSE s

Took(j, accepted) == accepted \/ j.extra > 0

\* The request in hand is over.
Over(j, accepted, answered) ==
  [j EXCEPT !.pc = "request", !.retried = FALSE, !.extra = 0,
            !.done = IF Took(j, accepted) THEN Append(@, j.todo[1]) ELSE @,
            !.lost = j.kind = "card" /\ (@ \/ (accepted /\ ~answered))]

\* Faulty variant: a later success hides the failure of an earlier chunk.
SettledForgets(j, accepted, answered) ==
  LET next == IF j.todo[1].what = "card" THEN <<>> ELSE Tail(j.todo)
      jj   == Over(j, accepted, answered)
  IN  IF accepted /\ answered
      THEN [jj EXCEPT !.todo = next, !.failed = FALSE]
      ELSE [jj EXCEPT !.todo = Cut(Tail(j.todo)), !.failed = TRUE]

\* A card that fails is replaced by the text.  Feishu stops at the first chunk
\* that fails, the others send the rest of the text and report the failure.
\* Without its upload, or after a failed caption, a picture is not shown.
Settled(j, accepted, answered) ==
  LET req  == j.todo[1]
      rest == Tail(j.todo)
      jj   == Over(j, accepted, answered)
  IN  CASE accepted /\ answered ->
             [jj EXCEPT !.todo = IF req.what = "card" THEN <<>>
                                 ELSE IF j.failed THEN Cut(rest) ELSE rest]
        [] ~(accepted /\ answered) /\ req.what = "card" ->
             [jj EXCEPT !.todo = rest]
        [] OTHER ->
             [jj EXCEPT !.failed = TRUE,
                        !.todo = IF platform = "feishu" THEN <<>> ELSE Cut(rest)]

\* The server accepts the request and its answer arrives or not, or it refuses.
Outcome(k) ==
  \/ job' = [job EXCEPT ![k] = Settled(@, TRUE, TRUE)]
  \/ job' = [job EXCEPT ![k] = Settled(@, TRUE, FALSE)]
  \/ job' = [job EXCEPT ![k] = Settled(@, FALSE, FALSE)]

\* Faulty variant: the transport repeats a try as long as it fails.
RepeatedAgain(k) ==
  /\ job[k].extra < 3
  /\ job' = [job EXCEPT ![k].pc = "again", ![k].extra = @ + 1, ![k].lost = TRUE]

\* The request is accepted and its answer lost; a client from the pool sends it
\* once more.  After a try that was not accepted the second is like a first.
Repeated(k) ==
  /\ job[k].pc # "again"
  /\ job' = [job EXCEPT ![k].pc = "again", ![k].extra = @ + 1, ![k].lost = TRUE]

\* __wrap_esp_http_client_perform
Perform(k) == Outcome(k) \/ Repeated(k)

Fails(k) == job' = [job EXCEPT ![k] = Settled(@, FALSE, FALSE)]

AtRequest(k, p, whats) ==
  /\ platform = p
  /\ job[k].todo # <<>>
  /\ job[k].todo[1].what \in whats

\* Telegram and WeChat carry a fixed credential.
TgRequest(k) ==
  /\ job[k].pc \in {"request", "again"} /\ AtRequest(k, "telegram", {"chunk"})
  /\ Perform(k)
  /\ UNCHANGED <<platform, accessToken, wechatStage>>

\* Written piece by piece, which the transport does not repeat.
TgUpload(k) ==
  /\ job[k].pc = "request" /\ AtRequest(k, "telegram", {"media"})
  /\ Outcome(k)
  /\ UNCHANGED <<platform, accessToken, wechatStage>>

WechatRequest(k) ==
  /\ job[k].pc \in {"request", "again"} /\ AtRequest(k, "wechat", {"chunk", "media"})
  /\ Perform(k)
  /\ UNCHANGED <<platform, accessToken, wechatStage>>

\* A URL is asked for ...
WechatGetUploadUrl(k) ==
  /\ job[k].pc \in {"request", "again"} /\ AtRequest(k, "wechat", {"url"})
  /\ Perform(k)
  /\ UNCHANGED <<platform, accessToken, wechatStage>>

\* ... under which the encrypted file is stored.
WechatUploadCiphertext(k) ==
  /\ job[k].pc \in {"request", "again"} /\ AtRequest(k, "wechat", {"upload"})
  /\ Perform(k)
  /\ UNCHANGED <<platform, accessToken, wechatStage>>

-----------------------------------------------------------------------------
(* QQ and Feishu: a token cached by all callers.                            *)

\* A cached token is used as it is, revoked or not.
HasToken(k) == job' = [job EXCEPT ![k].pc = "post"] /\ UNCHANGED accessToken

Fetches(k) ==
  \/ accessToken' = "good" /\ job' = [job EXCEPT ![k].pc = "post"]
  \/ Fails(k) /\ UNCHANGED accessToken

QqGetAccessToken(k) ==
  /\ job[k].pc = "request" /\ AtRequest(k, "qq", {"chunk", "upload", "media"})
  /\ IF accessToken # "none" THEN HasToken(k) ELSE Fetches(k)
  /\ UNCHANGED <<platform, wechatStage>>

FeishuGetTenantToken(k) ==
  /\ job[k].pc = "request" /\ AtRequest(k, "feishu", {"chunk", "card", "upload", "media"})
  /\ IF accessToken # "none" THEN HasToken(k) ELSE Fetches(k)
  /\ UNCHANGED <<platform, wechatStage>>

\* The token the request carries may be good: that of a try before, too, whatever
\* has become of the cached one.
MayBeGood(k) == accessToken = "good" \/ job[k].pc = "again"
MayBeBad(k) == accessToken = "revoked" \/ job[k].pc = "again"

\* Faulty variant: any failure is taken for an invalid token.
QqApiPostRetries(k) ==
  \/ accessToken = "good" /\ Outcome(k) /\ UNCHANGED accessToken
  \/ /\ ~job[k].retried
     /\ \E accepted \in {FALSE} \cup {accessToken = "good"} :
          job' = [job EXCEPT ![k].pc = "request", ![k].retried = TRUE,
                             ![k].done = IF accepted THEN Append(@, job[k].todo[1]) ELSE @]
     /\ accessToken' = "none"
  \/ Fails(k) /\ UNCHANGED accessToken

\* cap_im_qq_api_post: the header is made of the token as it is now, which
\* another caller may have dropped meanwhile.  Only the server's word that the
\* token is invalid drops it and repeats the request, once.
QqApiPost(k) ==
  \/ MayBeGood(k) /\ Perform(k) /\ UNCHANGED accessToken
  \/ accessToken # "good" /\ Fails(k) /\ UNCHANGED accessToken
  \/ /\ MayBeBad(k) /\ ~job[k].retried
     /\ accessToken' = "none"
     /\ job' = [job EXCEPT ![k].pc = "request", ![k].retried = TRUE]

QqSend(k) ==
  /\ job[k].pc \in {"post", "again"} /\ AtRequest(k, "qq", {"chunk", "media"})
  /\ QqApiPost(k)
  /\ UNCHANGED <<platform, wechatStage>>

\* The file goes into the request as base64.
QqUpload(k) ==
  /\ job[k].pc \in {"post", "again"} /\ AtRequest(k, "qq", {"upload"})
  /\ QqApiPost(k)
  /\ UNCHANGED <<platform, wechatStage>>

\* cap_im_feishu_api_call: a refused token stays cached until it expires.
FeishuApiCall(k) ==
  /\ job[k].pc \in {"post", "again"} /\ AtRequest(k, "feishu", {"chunk", "card", "media"})
  /\ IF MayBeGood(k) THEN Perform(k) ELSE Fails(k)
  /\ UNCHANGED <<platform, accessToken, wechatStage>>

\* Written piece by piece.
FeishuUpload(k) ==
  /\ job[k].pc = "post" /\ AtRequest(k, "feishu", {"upload"})
  /\ IF accessToken = "good" THEN Outcome(k) ELSE Fails(k)
  /\ UNCHANGED <<platform, accessToken, wechatStage>>

\* The server revokes the token, it comes near its end, or credentials are set.
TokenRevoked ==
  /\ accessToken = "good"
  /\ accessToken' = "revoked"
  /\ UNCHANGED <<platform, job, wechatStage>>

TokenCleared ==
  /\ accessToken # "none"
  /\ accessToken' = "none"
  /\ UNCHANGED <<platform, job, wechatStage>>

-----------------------------------------------------------------------------
Returned(k) == job[k].pc = "request" /\ job[k].todo = <<>>

\* The caller has its result and may call again.
Return(k) ==
  /\ Returned(k)
  /\ job' = [job EXCEPT ![k] = Idle]
  /\ UNCHANGED <<platform, accessToken, wechatStage>>

Next ==
  \/ \E k \in Callers :
       \/ TgSendText(k) \/ QqSendText(k) \/ FeishuSendText(k) \/ WechatSendText(k)
       \/ TgSendMedia(k) \/ QqSendMedia(k) \/ FeishuSendMedia(k) \/ WechatSendImage(k)
       \/ FeishuSendMessage(k)
       \/ \E chat \in Chats : SendStage(k, chat) \/ SendFinal(k, chat)
       \/ TgRequest(k) \/ TgUpload(k) \/ WechatRequest(k)
       \/ WechatGetUploadUrl(k) \/ WechatUploadCiphertext(k)
       \/ QqGetAccessToken(k) \/ QqSend(k) \/ QqUpload(k)
       \/ FeishuGetTenantToken(k) \/ FeishuApiCall(k) \/ FeishuUpload(k)
       \/ Return(k)
  \/ TokenRevoked \/ TokenCleared

Spec == Init /\ [][Next]_vars

-----------------------------------------------------------------------------
TypeOK ==
  /\ platform \in Platforms
  /\ job \in [Callers ->
       [pc : {"idle", "request", "post", "again"}, kind : {"none", "text", "media", "card"},
        plan : Seq(Request), todo : Seq(Request), done : Seq(Request),
        extra : 0..2, retried : BOOLEAN, failed : BOOLEAN, lost : BOOLEAN]]
  /\ accessToken \in {"none", "good", "revoked"}
  /\ stageCache \in [1..StageCacheSize -> [chat : Chats \cup {"none"}, count : 0..StageMax]]
  /\ stageIdx \in 1..StageCacheSize
  /\ stagesShown \in [Chats -> Nat] /\ missed \in [Chats -> 0..MaxMissed]

\* A call that returns ESP_OK has had every request of it accepted, in order:
\* for the card of Feishu the card alone, or the whole text after it
\* (cap_im_tg.c:1485, cap_im_qq.c:2070, cap_im_feishu.c:3331, cap_im_wechat.c:2481).
OkMeansDelivered ==
  \A k \in Callers :
    Returned(k) /\ ~job[k].failed =>
      IF job[k].kind = "card"
      THEN \/ job[k].done = SubSeq(job[k].plan, 1, 1)
           \/ job[k].done \in {job[k].plan, Tail(job[k].plan)}
      ELSE job[k].done = job[k].plan

\* No call goes back to what the server has accepted, although requests are
\* repeated and a card is replaced by a text: the exception is a card whose
\* answer is lost.  The transport does show things twice: what the server
\* accepts in the last try it may have accepted once before, on QQ twice, and
\* then an answer was lost (cap_im_qq.c:1195, cap_im_feishu.c:3027,
\* esp_http_client_reuse.c:641).
ShownOnce ==
  \A k \in Callers :
    LET d == job[k].done
    IN  /\ \A i, j \in DOMAIN d : i # j => d[i] # d[j]
        /\ (\E i \in DOMAIN d : d[i].what = "card") /\ Len(d) > 1 => job[k].lost
        /\ job[k].extra <= (IF platform = "qq" THEN 2 ELSE 1)
        /\ job[k].extra > 0 => job[k].lost

\* Between two other messages a chat gets at most the limit of stage messages
\* and one notice, however many there are and whatever other chats get, as long
\* as the cache has room for the chats; those that did not get the lock come
\* on top (cap_im_wechat.c:416 and 424).
StageLimitKept ==
  Cardinality(Chats) <= StageCacheSize =>
    \A c \in Chats : stagesShown[c] <= StageLimit + 1 + missed[c]
=============================================================================
