SPECIFICATION MCSpec
CONSTANTS
  Nil = Nil
  MaxChanges = 1
  MaxFailures = 0
  MaxResyncs = 0
PROPERTIES
  WebhooksNoticeEndpoints
CHECK_DEADLOCK FALSE
