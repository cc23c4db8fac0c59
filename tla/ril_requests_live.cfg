CONSTANTS
  TOKEN_POOL_SIZE = 2
  REQ_POOL_SIZE = 2
  SetIds = {volume}
  OemRaw = raw
  GetMuteId = getmute
  Handlers = {h1}
  NoHandler = none
  NoId = noid
  MaxRequests = 2
SPECIFICATION FairSpec
INVARIANT RetryCanSucceed
PROPERTIES HandlerFound EveryRequestResolved CallReturns
