SPECIFICATION Spec
CONSTANTS
  Pages = {p1}
  Rounds = 2
  Articles = {a1}
  Contexts = {c1}
  Interval = 4
  MinRefresh = 2
  FetchTtl = 6
  LockTtl = 2
  MaxJob = 1
  MaxAttempts = 2
  MaxTime = 6
  Faults = {"redis", "zyte", "publish", "crash"}
  NoToken = NoToken
INVARIANTS
  TypeOK
PROPERTIES
  ImplementsGuard
  AckedCrawlComplete
  OnTimePageCrawled
