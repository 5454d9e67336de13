SPECIFICATION Spec
CONSTANTS
  Expression <- MCExpression
  Policy <- MCPolicy
  Evaluator <- MCEvaluator
  MaxAdmissions = 2
  Parses <- MCParses
  Execute <- MCExecute
  ToCel <- MCToCel
INVARIANTS
  PolicyJudged
  DenialExplained
CHECK_DEADLOCK FALSE
