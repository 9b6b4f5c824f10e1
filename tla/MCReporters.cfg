SPECIFICATION MCSpec
CONSTANTS
  Nil = Nil
  MaxChanges = 2
  MaxFailures = 1
  MaxResyncs = 1
INVARIANTS
  ReportersTypeOK
  CacheTellsCloud
PROPERTIES
  NeverOlder
  CloudFollowsCluster
CHECK_DEADLOCK FALSE
