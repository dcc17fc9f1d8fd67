SPECIFICATION Spec
CONSTANTS
  u1 = u1
  j1 = j1
  j2 = j2
  Urls = {u1}
  Jobs = {j1, j2}
  Versions = {"A"}
  JobUrl <- OneUrl
  JobWindow <- Mixed
  LiveJobs = {j1}
  LockTtl = 2
  AttemptTtl = 3
  ContentTtl = 4
  MinGap = 2
  MaxJob = 1
  MaxAttempts = 2
  MaxTime = 5
  Faults = {}
  NoVersion = NoVersion
  NoToken = NoToken
PROPERTIES
  FullWindowRespected
