SPECIFICATION FairSpec
CONSTANTS
  Subscribers = {s1, s2}
  Messages = {m1, m2}
  Callers = {c1}
  Topics = {t1, t2}
  MaxClients = 2
INVARIANTS
  TypeOK
  OneClient
  NoOrphanSubscriber
  TopicsCurrent
PROPERTIES
  DroppedAfterDrain
  ShutdownEnds
CHECK_DEADLOCK FALSE
