SPECIFICATION SpecWithProgress
CONSTANTS
  Names <- TwoActors
  Generations = 1
  Multi = FALSE
  Pairs = FALSE
  Plans <- NoPlan
  Locks = {"x", "y"}
  Commands = {"x", "y", "commit"}
  MaxSteps = 8
  MaxCommands = 2
  MaxCancels = 1
  Interrupts = FALSE
  Failures = FALSE
  Rejections = FALSE
  Closes = FALSE
  Abandons = FALSE
  Disturbances = FALSE
PROPERTIES ReachesVerdict
