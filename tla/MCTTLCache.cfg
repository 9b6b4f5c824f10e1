SPECIFICATION CacheSpec
CONSTANTS
  api = api
  db = db
  a1 = a1
  a2 = a2
  K <- MCK
  V <- MCV
  maxSize = 2
  TTLs <- MCTTLs
  Patterns <- MCPatterns
  MaxTime = 3
INVARIANTS
  CacheTypeOK
  IndexMatchesList
  ReadsAreFresh
  RecentlyUsedStays
PROPERTIES
  ImplementsDNSCache
