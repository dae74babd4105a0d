SPECIFICATION RepoSpec
CONSTANTS
  NoKey = NoKey
  Key <- AppKey
  Word <- AppWord
  Index <- AppIndex
  Rank <- AppRank
  Types <- AppTypes
  Meta <- AppMeta
  Insertions <- AppInsertions
  Aliases <- AppAliases
  Coercions <- NoCoercions
  PrefixOrder <- AppPrefixOrder
  Sources <- AppSources
  Provided <- AppProvided
  MaxSources = 2
CHECK_DEADLOCK FALSE
INVARIANTS
  NewestSourceWins
PROPERTY
  ImplementsLayers
