SPECIFICATION Spec
CONSTANTS
  MaxMantissa = 32767
  MaxWide = 1073741823
  WidePow = 9
  MaxExponent = 14
  DecimalExponents <- MCDecimalExponents
  SecondsIn <- MCSecondsIn
  BytesIn <- MCBytesIn
  WeiScale <- MCWeiScale
  Texts <- MCTexts
  Decimals <- MCDecimals
  Factors <- MCFactors
  Scales <- MCScales
  Amounts <- MCAmounts
  UnitTexts <- MCUnitTexts
  Objects <- MCObjects
CHECK_DEADLOCK FALSE
INVARIANTS
  ParsedExactly
  PrintedParses
  ProductNearest
  IntegerNearest
  UnitsReadBack
