SPECIFICATION SpecWithProgress
CONSTANTS
  Names <- TwoActors
  Generations = 2
  Multi = TRUE
  Pairs = TRUE
  Plans <- NoPlan
  Locks = {"x"}
  Commands = {"x", "copy", "commit"}
  MaxSteps = 8
  MaxCommands = 1
  MaxCancels = 0
  Interrupts = FALSE
  Failures = FALSE
  Rejections = FALSE
  Closes = FALSE
  Abandons = FALSE
  Disturbances = FALSE
PROPERTIES HonoursContract ReachesVerdict
