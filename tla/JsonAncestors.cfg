SPECIFICATION Spec
CONSTANTS
  NoKey = NoKey
  Initial <- ScalarInitial
  Locations <- AllLocations
  Inserted <- Values
  ProcessEnv <- MCProcessEnv
  EnvPrefixes <- MCEnvPrefixes
  Extra <- MCExtra
  DotEnvs <- MCDotEnvs
  Json <- MCJson
  PrefixesOfSources <- MCPrefixesOfSources
  MaxPushed = 1
CHECK_DEADLOCK FALSE
INVARIANT AncestorsReplaced
