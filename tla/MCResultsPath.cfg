SPECIFICATION WatchersSpec
CONSTANTS
  k1 = k1
  k2 = k2
  excluded = excluded
  d1 = d1
  d2 = d2
  Ports <- MCDetails
  Keys <- MCKeys
  ExcludedKeys <- MCExcluded
  Results <- MCResults
  Reports <- MCReports
  UploadBatchSize = 1
  MaxRetries = 1
  QueueSize = 1
  MaxResults = 3
  MaxRestarts = 1
  NoDetail = NoDetail
  NamesOf <- MCNamesOf
  MaxSidecars = 2
  MaxRequests = 2
  MaxErrors = 1
INVARIANTS
  QueuesTypeOK
  EveryResultAccounted
  UploadsSummariseWindows
  NotesReachMapper
PROPERTIES
  AcceptedSettle
  RequestsNoticed
CHECK_DEADLOCK FALSE
