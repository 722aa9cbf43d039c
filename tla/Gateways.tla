-------------------------------- MODULE Gateways --------------------------------
(***************************************************************************)
(* The chat platforms of cap_im_platform side by side: what is received    *)
(* from each of them, the login to WeChat, what is sent to each, and the   *)
(* pool of HTTP clients under them.  These share no state, each has its    *)
(* own tasks; a behaviour is about one of them, the others stay as they    *)
(* start.                                                                  *)
(***************************************************************************)
EXTENDS ImInbound, ImOutbound

VARIABLE gateway

allVars == <<gateway, inboundVars, outboundVars>>

Init ==
  /\ gateway \in {"telegram", "qq", "feishu", "wechat", "login", "send", "http"}
  /\ Tg!Init /\ Qq!Init /\ Fs!Init /\ Wx!Init /\ Login!Init /\ Out!Init
  /\ Http!Init
  /\ gateway # "send" => platform = "wechat"

Next ==
  /\ UNCHANGED gateway
  /\ \/ /\ UNCHANGED outboundVars
        /\ \/ /\ gateway = "telegram" /\ Tg!Next
              /\ UNCHANGED <<qqVars, feishuVars, wechatVars>>
           \/ /\ gateway = "qq" /\ Qq!Next
              /\ UNCHANGED <<telegramVars, feishuVars, wechatVars>>
           \/ /\ gateway = "feishu" /\ Fs!Next
              /\ UNCHANGED <<telegramVars, qqVars, wechatVars>>
           \/ /\ gateway = "wechat" /\ Wx!Next
              /\ UNCHANGED <<telegramVars, qqVars, feishuVars>>
     \/ /\ UNCHANGED inboundVars
        /\ \/ /\ gateway = "login" /\ Login!Next
              /\ UNCHANGED <<sendVars, httpVars>>
           \/ /\ gateway = "send" /\ Out!Next
              /\ UNCHANGED <<loginVars, httpVars>>
           \/ /\ gateway = "http" /\ Http!Next
              /\ UNCHANGED <<loginVars, sendVars>>

Spec == Init /\ [][Next]_allVars

-----------------------------------------------------------------------------
\* What a behaviour is not about stays as it starts.
On(g, property) == gateway = g => property

TypeOK ==
  /\ On("telegram", Tg!TypeOK) /\ On("qq", Qq!TypeOK) /\ On("feishu", Fs!TypeOK)
  /\ On("wechat", Wx!TypeOK) /\ On("login", Login!TypeOK) /\ On("send", Out!TypeOK)
  /\ On("http", Http!TypeOK)

\* A message the server will not deliver again has been looked at by the
\* device: on Telegram and WeChat by the offset or cursor of a poll, on Feishu
\* by an acknowledgement, through lost answers, broken connections and resets;
\* not on Telegram once a token was set during a poll, whose offset may then go
\* to the other bot (cap_im_tg.c:627, cap_im_wechat.c:1594, cap_im_feishu.c:2362).
ForgottenIsHandled ==
  /\ On("telegram", Tg!ForgottenIsHandled) /\ On("wechat", Wx!ForgottenIsHandled)
  /\ On("feishu", Fs!AckedIsHandled)

\* A text is published once, however often it is delivered, between two starts
\* of the device, and on Telegram two settings of a token: rings, offsets and
\* this history begin anew.  Not on Telegram once a token was set during a poll,
\* nor on QQ while the handler that a stop gave up runs beside another
\* (cap_im_tg.c:631, cap_im_qq.c:973, cap_im_feishu.c:2207, cap_im_wechat.c:1482).
PublishedOnce ==
  /\ On("telegram", Tg!TextsOnceInOrder) /\ On("qq", Qq!TextsOnce)
  /\ On("feishu", Fs!TextsOnce) /\ On("wechat", Wx!TextsOnceInOrder)

\* A frame that is handled is one the server sent, whole (cap_im_qq.c:240,
\* cap_im_feishu.c:2408).
FramesWhole ==
  /\ On("qq", Qq!FramesWhole) /\ On("feishu", Fs!FramesWhole)

\* What a gateway's own task uses is not freed by a stop: its queue or state
\* block (cap_im_tg.c:1226, cap_im_qq.c:1782, cap_im_feishu.c:3308,
\* cap_im_wechat.c:2238).  The code does free it under a task that outlived a
\* stop and got a second one beside it: on Telegram (`outlived') and on QQ
\* (`strayHandler') this says nothing from then on.  On WeChat a login's start
\* in progress, its task's last unlock and the senders are not waited for.
\* The pool does not free a task's HTTP client, which no other task gets
\* meanwhile either, and which is not taken for an earlier one at its address
\* (esp_http_client_reuse.c:286, 444 and 656).
UsedIsKept ==
  /\ On("telegram", Tg!QueueOutlivesTasks) /\ On("qq", Qq!QueueOutlivesTasks)
  /\ On("feishu", Fs!QueueOutlivesTasks) /\ On("wechat", Wx!StateOutlivesTask)
  /\ On("login", Login!StateOutlivesTask)
  /\ On("http", Http!ClientsHaveOneOwner /\ Http!LeasesAreHeld)

\* The login to WeChat: a session stays active only as long as a task polls it,
\* and a token is of one of its own codes (cap_im_wechat.c:2389, 2562 and 2741).
\* Excepted is a session whose start found the handle of an earlier task
\* (`taskReused'): that task may end unseen, or store the late confirmation of
\* an earlier session's code in this one (cap_im_wechat.c:2689).
LoginSound == On("login", Login!ActiveIsPolled /\ Login!TokenIsOwn)

\* ESP_OK of a send function means the server has accepted all of it, in order
\* (cap_im_tg.c:1485, cap_im_qq.c:2070, cap_im_feishu.c:3331, cap_im_wechat.c:2481).
OkMeansDelivered == On("send", Out!OkMeansDelivered)

\* What the server has accepted with an answer no call sends again; a request
\* whose answer was lost the transport repeats, so that it shows once more, on QQ
\* at most twice more (esp_http_client_reuse.c:641, cap_im_qq.c:1195).  A chat on
\* WeChat gets no more stage messages than its limit and those that went without
\* the lock (cap_im_wechat.c:416 and 424), and a request on a pooled client goes
\* to the host it is for and again at most once (esp_http_client_reuse.c:538).
SentAsMeant ==
  /\ On("send", Out!ShownOnce /\ Out!StageLimitKept)
  /\ On("http", Http!GoesWhereAsked /\ Http!RetriedOnce)
=============================================================================
