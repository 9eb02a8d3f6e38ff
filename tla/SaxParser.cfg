CONSTANTS
  MaxNesting = 3
  GenSize = 3
  ReuseOpen = FALSE
SPECIFICATION Spec
INVARIANTS TypeOK StackTypeAgrees GeneratorInStep NeverAborts WholeTexts FailureExplained
PROPERTIES ImplementsText Progress
