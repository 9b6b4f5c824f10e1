SPECIFICATION Spec
CONSTANTS
  p1 = p1
  p2 = p2
  l1 = l1
  getItems = getItems
  Ports <- MCPorts
  Keys <- MCKeys
  Resources <- MCResources
  Labels <- MCLabels
  Reports <- MCReports
  Queries <- MCQueries
  ExcludedNamespaces <- MCExcluded
  MaxReports = 3
  UploadBatchSize = 1
  MaxRetries = 1
INVARIANTS
  UploadTypeOK
  EveryReportCovered
  CloudReportsSummariseWindows
PROPERTIES
  ImplementsPipeline
  FactsSettle
