SPECIFICATION WalkSpec
CONSTANTS
  NoNode = NoNode
  NoValue = NoValue
  NotANumber = NotANumber
  Overflow = Overflow
  AnyNode = AnyNode
  AnyElement = AnyElement
  Malformed = Malformed
  MinInt <- MCMinInt
  MaxInt = 2
  Inputs <- MCInputs
  Parsed <- MCParsed
  Root = 1
  Options <- MCOptions
  Tags <- MCTags
  Batches = {1, 3}
  MaxEdits <- MCMaxEdits
INVARIANTS
  WalkTypeOK
  DecodingIsFaithful
  OptionsKeepTheRest
  ReadersAgree
  SumIsExactOrRefused
  WalkVisitsOnce
PROPERTY RemovedAheadStaysOut
CHECK_DEADLOCK FALSE
