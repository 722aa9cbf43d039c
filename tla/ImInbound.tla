-------------------------------- MODULE ImInbound --------------------------------
(***************************************************************************)
(* What the chat platforms of cap_im_platform receive, side by side: each  *)
(* has its own tasks and they share no state.                              *)
(***************************************************************************)
EXTENDS Naturals, FiniteSets

CONSTANTS
  Bots, NoBot, TgMaxUpdates, TgRingSize, TgJobQueueLen, TgMaxTokens,
  QqMaxFrames, QqMaxConnections, QqFrameQueueLen, QqSeenSize, QqResendWindow,
  FsMaxMessages, FsMaxResets, FsJobQueueLen, FsSeenSize, FsResendWindow,
  WxMaxMessages, WxMaxLives, WxSeenSize

VARIABLES
  \* ImTelegram
  updates, forgotten, botToken, tokensLeft, nextUpdateId, seenUpdates, pollTask, polled,
  polledBatch, tgStopping, jobQueue, downloaders, attachHandle, tgStopper, textsOut,
  handledUpdates, tokenMixed, outlived,
  \* ImQq
  frames, sending, link, connections, wsTask, wsConnected, identifyPending, shouldReconnect,
  qqStopping, assembly, assemblyLen, frameQueue, handlers, inHand, inboundHandle, qqStopper,
  seenMessages, qqTexts, strayHandler,
  \* ImFeishu
  fsMessages, fsAcked, fsSending, fsLink, fsWsTask, rxBuf, fsCall, fsSeen, fsJobs,
  fsDownloader, fsStopping, fsManager, resetsLeft, fsTexts, fsHandled,
  \* ImWechat
  wxMessages, wxForgotten, stateHeld, wxConfigured, syncBuf, wxSeen, wxPollTask, wxBatch,
  wxStopping, wxStopper, livesLeft, wxTexts, wxHandled

Tg == INSTANCE ImTelegram WITH MaxUpdates <- TgMaxUpdates, RingSize <- TgRingSize,
                               JobQueueLen <- TgJobQueueLen, MaxTokens <- TgMaxTokens
Qq == INSTANCE ImQq WITH MaxFrames <- QqMaxFrames, MaxConnections <- QqMaxConnections,
                         FrameQueueLen <- QqFrameQueueLen, SeenSize <- QqSeenSize,
                         ResendWindow <- QqResendWindow
Fs == INSTANCE ImFeishu WITH MaxMessages <- FsMaxMessages, MaxResets <- FsMaxResets,
                             JobQueueLen <- FsJobQueueLen, SeenSize <- FsSeenSize,
                             ResendWindow <- FsResendWindow
Wx == INSTANCE ImWechat WITH MaxMessages <- WxMaxMessages, MaxLives <- WxMaxLives,
                             SeenSize <- WxSeenSize

ASSUME InboundAssumption ==
  /\ Tg!TelegramAssumption /\ Qq!QqAssumption /\ Fs!FeishuAssumption
  /\ Wx!WechatAssumption

telegramVars == <<updates, forgotten, botToken, tokensLeft, nextUpdateId, seenUpdates,
                  pollTask, polled, polledBatch, tgStopping, jobQueue, downloaders,
                  attachHandle, tgStopper, textsOut, handledUpdates, tokenMixed, outlived>>
qqVars == <<frames, sending, link, connections, wsTask, wsConnected, identifyPending,
            shouldReconnect, qqStopping, assembly, assemblyLen, frameQueue, handlers,
            inHand, inboundHandle, qqStopper, seenMessages, qqTexts, strayHandler>>
feishuVars == <<fsMessages, fsAcked, fsSending, fsLink, fsWsTask, rxBuf, fsCall, fsSeen,
                fsJobs, fsDownloader, fsStopping, fsManager, resetsLeft, fsTexts,
                fsHandled>>
wechatVars == <<wxMessages, wxForgotten, stateHeld, wxConfigured, syncBuf, wxSeen,
                wxPollTask, wxBatch, wxStopping, wxStopper, livesLeft, wxTexts, wxHandled>>
inboundVars == <<telegramVars, qqVars, feishuVars, wechatVars>>
==================================================================================
