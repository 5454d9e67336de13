SPECIFICATION EvalSpec
CONSTANTS
  Builds <- FullBuild
  FirstCall <- LargeCalls
  NextCall <- MCNextCall
  DurationField <- MCDurationField
  MaxCalls = 2
  IntLimit = 127
  OverflowChecks = TRUE
  Precision = 5
  Alphabet <- MCAlphabet
  InvalidPattern <- MCInvalidPattern
  MantissaLimit = 16383
  Literal <- MCLiteral
  Number <- MCNumber
  MaxQuantities = 3
  Scale = 4
  Ratio = 10
  Places = 1
  Sixty = 6
  DurationLimit = 131071
  DurationPrecision = 14
  MaxLabel = 3
  MaxSubdomain = 7
INVARIANT GreatestIsGreatest
CHECK_DEADLOCK FALSE
