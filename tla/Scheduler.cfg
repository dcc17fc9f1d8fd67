SPECIFICATION FairSpec
CONSTANTS
  p1 = p1
  p2 = p2
  PageList <- TwoPages
  PageOffset <- Offsets
  RefreshMinutes = 2
  MaxPagesPerTick = 2
  LiveArticles = {a1}
  MaxLivePerTick = 1
  Threshold = 3
  Minute = 2
  Early = 1
  MaxTime = 7
INVARIANTS
  TypeOK
  EnqueuesSpaced
  SkippedOnlyByOverrun
  HungPagesUnhealthy
PROPERTIES
  PagesKeepTicking
