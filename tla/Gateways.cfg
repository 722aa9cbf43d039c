SPECIFICATION Spec
CONSTANTS
  Bots = {b1, b2}
  NoBot = NoBot
  TgMaxUpdates = 2
  TgRingSize = 1
  TgJobQueueLen = 1
  TgMaxTokens = 2
  QqMaxFrames = 2
  QqMaxConnections = 2
  QqFrameQueueLen = 2
  QqSeenSize = 1
  QqResendWindow = 1
  FsMaxMessages = 2
  FsMaxResets = 1
  FsJobQueueLen = 1
  FsSeenSize = 1
  FsResendWindow = 1
  WxMaxMessages = 3
  WxMaxLives = 2
  WxSeenSize = 1
  MaxCodes = 3
  MaxRefresh = 2
  Callers = {k1, k2}
  Chats = {c1, c2}
  MaxChunks = 2
  StageLimit = 1
  StageMax = 3
  StageCacheSize = 2
  MaxMissed = 1
  Users = {u1, u2}
  Handles = {h1, h2, h3}
  NoHandle = NoHandle
  Hosts = {s1, s2}
  NoHost = NoHost
  MaxPool = 1
  IdleTimeout = 1
SYMMETRY Symmetry
INVARIANTS
  TypeOK
  ForgottenIsHandled
  PublishedOnce
  FramesWhole
  UsedIsKept
  LoginSound
  OkMeansDelivered
  SentAsMeant
CHECK_DEADLOCK FALSE
