SPECIFICATION StoreSpec
CONSTANTS
  p1 = p1
  p2 = p2
  l1 = l1
  l2 = l2
  getItems = getItems
  postItems = postItems
  Ports <- MCPorts
  Keys <- MCKeys
  Resources <- MCResources
  Labels <- MCLabels
  Reports <- MCReports
  Queries <- MCLabelQueries
  ExcludedNamespaces <- MCExcluded
  MaxReports = 4
INVARIANT ResponseHasIncludedLabelsOnly
