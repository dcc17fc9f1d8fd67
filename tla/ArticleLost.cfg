SPECIFICATION Spec
CONSTANTS
  u1 = u1
  j1 = j1
  j2 = j2
  Urls = {u1}
  Jobs = {j1}
  Versions = {"A", "B"}
  JobUrl <- OneUrl
  JobWindow <- BothLive
  LiveJobs = {}
  LockTtl = 2
  AttemptTtl = 3
  ContentTtl = 4
  MinGap = 2
  MaxJob = 1
  MaxAttempts = 3
  MaxTime = 4
  Faults = {"redis", "ack"}
  NoVersion = NoVersion
  NoToken = NoToken
PROPERTIES
  NothingLost
