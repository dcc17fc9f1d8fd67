SPECIFICATION FairSpec
CONSTANTS
  Pods = {w1, w2}
  Jobs = {j1}
  ForceAfter = 1
  DrainTimeout = 2
  MaxMessages = 1
  MaxAttempts = 2
  MaxSignals = 2
  MaxCrashes = 1
  NoPod = NoPod
INVARIANTS
  TypeOK
  ReadyWhileWorking
  LockLeftOnlyByFault
PROPERTIES
  ShutdownEnds
  EveryJobSettles
CHECK_DEADLOCK FALSE
