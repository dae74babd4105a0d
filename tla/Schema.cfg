SPECIFICATION Spec
CONSTANTS
  NoKey = NoKey
  Key <- MCKey
  Types <- TreeTypes
  Meta <- TreeMeta
  Insertions <- TreeInsertions
  Aliases <- TreeAliases
  Coercions <- TreeCoercions
INVARIANTS
  IndInv
  NoPathConflicts
  MountsExplained
  CanonicalParamsMarked
  NestedPresent
  ParentLinkResolves
  TopLevelIsDirect
  IterCovers
PROPERTIES
  AliasPriorityKept
  MountsStable
