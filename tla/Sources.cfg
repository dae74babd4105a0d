SPECIFICATION Spec
CONSTANTS
  NoKey = NoKey
  Initial <- ObjectInitial
  Locations <- AllLocations
  Inserted <- Values
  ProcessEnv <- MCProcessEnv
  EnvPrefixes <- MCEnvPrefixes
  Extra <- MCExtra
  DotEnvs <- MCDotEnvs
  Json <- MCJson
  PrefixesOfSources <- MCPrefixesOfSources
  MaxPushed = 1
CHECK_DEADLOCK FALSE
INVARIANTS
  PushedObjects
  LastMergeWins
  StripCommutes
PROPERTIES
  JsonWins
