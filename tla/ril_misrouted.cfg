CONSTANTS
  TOKEN_POOL_SIZE = 2
  REQ_POOL_SIZE = 2
  SetIds = {volume}
  OemRaw = raw
  GetMuteId = getmute
  Handlers = {h1}
  NoHandler = none
  NoId = noid
  MaxRequests = 3
SPECIFICATION Spec
INVARIANT OwnHandler
