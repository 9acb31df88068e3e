\* Every pattern and topic of up to three levels.
SPECIFICATION Spec
CONSTANTS
  Topics <- AllTopics
  Patterns <- AllPatterns
  Default <- Msh
  Blank = ""
INVARIANTS NothingSelectedIsSkipped OnlyBelowIsProcessed OnlySelectedIsLogged
