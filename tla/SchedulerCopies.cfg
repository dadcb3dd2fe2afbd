SPECIFICATION Spec
CONSTANTS
  Names <- TwoActors
  Generations = 2
  Multi = TRUE
  Pairs = TRUE
  Plans <- MaybePair
  Locks = {}
  Commands = {"copy", "plain"}
  MaxSteps = 4
  MaxCommands = 1
  MaxCancels = 0
  Interrupts = FALSE
  Failures = FALSE
  Rejections = FALSE
  Closes = FALSE
  Abandons = FALSE
  Disturbances = FALSE
PROPERTIES CopyExcludesOtherActors
