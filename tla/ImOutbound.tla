-------------------------------- MODULE ImOutbound -------------------------------
(***************************************************************************)
(* What the chat platforms of cap_im_platform ask of their servers, side   *)
(* by side: the login to WeChat, what is sent to each platform, and the    *)
(* pool of HTTP clients under all of it.  These share no state.            *)
(***************************************************************************)
EXTENDS Naturals, FiniteSets

CONSTANTS
  MaxCodes, MaxRefresh,
  Callers, Chats, MaxChunks, StageLimit, StageMax, StageCacheSize, MaxMissed,
  Users, Handles, NoHandle, Hosts, NoHost, MaxPool, IdleTimeout

VARIABLES
  \* WechatLogin
  qr, lockedBy, starting, qrTask, qrHandle, polledCode, codeOf, confirmed, stopWaiting, freed,
  taskReused,
  \* ImSend
  platform, job, accessToken, stageCache, stageIdx, stagesShown, missed,
  \* HttpReuse
  at, pool, leases, user

Login == INSTANCE WechatLogin
Out == INSTANCE ImSend
Http == INSTANCE HttpReuse

ASSUME OutboundAssumption ==
  Login!LoginAssumption /\ Out!SendAssumption /\ Http!HttpReuseAssumption

loginVars == <<qr, lockedBy, starting, qrTask, qrHandle, polledCode, codeOf, confirmed,
               stopWaiting, freed, taskReused>>
sendVars == <<platform, job, accessToken, stageCache, stageIdx, stagesShown, missed>>
httpVars == <<at, pool, leases, user>>
outboundVars == <<loginVars, sendVars, httpVars>>
==================================================================================
