SPECIFICATION FairSpec
CONSTANTS
  Back = Back
  Down = Down
  Button = {Back, Down}
  Debounce = 0
  LongDelay = 2
  RepeatEvery = 1
  AppLen = 1
  FirstConfig <- FirstConfigs
  Offers <- AnyOffer
  Changes <- AnyChanges
INVARIANT TypeOK
INVARIANT LongXorShort
PROPERTY LevelIsSeen
PROPERTY HeldIsLong
