SPECIFICATION Spec
CONSTANTS
  Names <- TwoActors
  Generations = 1
  Multi = FALSE
  Pairs = TRUE
  Plans <- NoPlan
  Locks = {"x"}
  Commands = {"x", "copy", "commit"}
  MaxSteps = 3
  MaxCommands = 1
  MaxCancels = 1
  Interrupts = TRUE
  Failures = TRUE
  Rejections = FALSE
  Closes = TRUE
  Abandons = FALSE
  Disturbances = TRUE
PROPERTIES OthersReallyWait
INVARIANTS CancelNamesItsStep
