SPECIFICATION FairSpec
CONSTANTS
  ManLen = 2
  AppLen = 1
  MaxWins = 1
  MaxSubs = 1
  Troubles = 2
INVARIANT TypeOK
INVARIANT OnePainter
INVARIANT EventsDieOnce
PROPERTY FramesGoOn
