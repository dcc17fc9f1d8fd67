SPECIFICATION Spec
CONSTANTS
  u1 = u1
  j1 = j1
  j2 = j2
  Urls = {u1}
  Jobs = {j1, j2}
  Versions = {"A"}
  JobUrl <- OneUrl
  JobWindow <- MixedFar
  LiveJobs = {j1}
  LockTtl = 2
  AttemptTtl = 3
  ContentTtl = 6
  MinGap = 2
  MaxJob = 1
  MaxAttempts = 2
  MaxTime = 5
  Faults = {"redis", "publish", "crash"}
  NoVersion = NoVersion
  NoToken = NoToken
INVARIANTS
  TypeOK
  MutualExclusion
  HolderOwnsLock
  StoredHashWasPublished
PROPERTIES
  WindowRespected
  ImplementsGuard
