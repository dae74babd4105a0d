SPECIFICATION RepoSpec
CONSTANTS
  NoKey = NoKey
  Key <- ShapesKey
  Word <- ShapesWord
  Index <- AppIndex
  Rank <- AppRank
  Types <- ShapesTypes
  Meta <- ShapesMeta
  Insertions <- ShapesInsertions
  Aliases <- NoAliases
  Coercions <- ShapesCoercions
  PrefixOrder <- ShapesPrefixOrder
  Sources <- ScalarJobSources
  Provided <- NoFallbacks
  MaxSources = 1
CHECK_DEADLOCK FALSE
INVARIANT NoPanic
