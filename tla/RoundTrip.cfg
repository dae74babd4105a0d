SPECIFICATION Spec
CONSTANTS
  NoKey = NoKey
  Key <- MCKey
  Types <- MCTypes
  Code <- MCCode
  DeParam <- MCDeParam
  Holds <- MCHolds
  Roots <- MCRoots
  FallbackValues <- MCFallbackValues
  Configs <- MCConfigs
  OptionSets <- MCOptionSets
  ParamInfo <- MCParamInfo
  DefaultVariant <- MCDefaultVariant
  SerializedParam <- MCSerializedParam
  MaxInt <- MCMaxInt
  IntTexts <- MCIntTexts
  FloatTexts <- MCFloatTexts
  UpperOf <- MCUpperOf
  CoerceVariantNames = TRUE
  NumberTexts <- MCNumberTexts
INVARIANTS
  CanonicalReparses
  FailuresReported
  CompletenessAgrees
  CoercionAgrees
  SpellingsAgree
CHECK_DEADLOCK FALSE
