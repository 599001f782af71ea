SPECIFICATION Spec
CONSTANTS
  Loggers = {daemon, cli}
  OneShot = {cli}
  LightWriters = {oc}
  Faults = {"crash idle", "crash line", "crash sync", "torn", "newline", "sync"}
  MaxWrites = 4
INVARIANTS
  TypeOK
  ChainVerifies
  SeqIncreasing
  DamageBounded
  LinksPointBack
CHECK_DEADLOCK FALSE
