SPECIFICATION Spec
CONSTANTS
  Timeout <- CodeTimeout
  Retries <- CodeRetries
  MinDelay <- CodeMinDelay
  MaxDelay <- CodeMaxDelay
  LockTtl = 600
  JwtTtl = 300
  Refresh = 285
  JwtAges <- SomeAges
  Outages <- SomeOutages
  Durations <- SomeDurations
INVARIANTS
  TypeOK
  CallsFitLock
  ShortOutageRidden
  TokenOutlivesTransit
