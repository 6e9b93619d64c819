CONSTANTS
  Cap = 4
  RxQueue = 1
  TxQueue = 1
  MaxMessages <- Messages
  MaxPackets = 1
  JunkLen <- Junk
  Envs <- AllEnvs
SPECIFICATION Spec
INVARIANT TypeOK
INVARIANT LockMatchesTransfer
INVARIANT StreamIsRead
INVARIANT LinkSurvives
INVARIANT DownloadIsWhole
PROPERTY LinkGoesOn
CHECK_DEADLOCK FALSE
