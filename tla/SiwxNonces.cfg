SPECIFICATION Spec
CONSTANTS
  m1 = m1
  m2 = m2
  m3 = m3
  Threads = {t1, t2}
  Msgs = {m1, m2, m3}
  Expiration <- MCExpiration
  NoExpiration = NoExpiration
  NotBefore <- MCNotBefore
  DefaultTTL = 2
  Skew = 1
  MaxEntries = 2
  MaxTime = 2
SYMMETRY Symmetry
INVARIANTS
  TypeOK
  ConsumedOnce
  SignaturesBounded
PROPERTIES
  EvictsOldest
CHECK_DEADLOCK FALSE
