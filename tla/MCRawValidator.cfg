SPECIFICATION Spec
CONSTANTS
  MaxDepth = 2
  MapOrder <- MCMapOrder
  Parses <- MCParses
  References <- MCReferences
  Execute <- MCExecute
  ReservedWords <- MCReservedWords
  ParsesAs <- MCParsesAs
  MaxNesting = 4
  Call <- MCCall
  Frame <- MCFrame
  Result <- MCResult
  RootFrame <- RawRootFrame
  Results <- RawResults
  Children <- RawChildren
  Convert <- JsonToCelWithSchema
  Path <- MCPath
INVARIANTS
  TypeOK
  FailClosed
  ReportedForCause
  EveryPositionJudged
  OldOfTheSamePosition
  RootVariablesOnlyAtRoot
  OldSelfNeverUnbound
  DefaultsOnlyFill
PROPERTY KeepsPromise
CHECK_DEADLOCK FALSE
