SPECIFICATION Spec
CONSTANTS
  condenseWhiteSpace = TRUE
  Lists <- MCLists
  Paths <- MCPaths
  NULL = NULL
  MaxConnects = 2
INVARIANTS
  ConfigurationIsRead
  DoneMeansConfigured
  SepStringSplits
