SPECIFICATION Spec
CONSTANTS
  NoKey = NoKey
  Key <- MCKey
  Types <- MCTypes
  Code <- MCCode
  DeParam <- MCDeParam
  Holds <- MCHolds
  Roots <- MCRoots
  Calls <- MCCalls
INVARIANTS
  IndInv
  FailureExplained
PROPERTIES
  OuterErrorsKept
  ImplementsPromise
  EveryParseReturns
