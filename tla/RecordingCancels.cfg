SPECIFICATION RecordingSpec
CONSTANTS
  Names <- TwoActors
  Generations = 1
  Multi = FALSE
  Pairs = TRUE
  Plans <- NoPlan
  Locks = {"x"}
  Commands = {"x", "copy", "commit"}
  MaxSteps = 2
  MaxCommands = 1
  MaxCancels = 1
  Interrupts = TRUE
  Failures = TRUE
  Rejections = FALSE
  Closes = TRUE
  Abandons = TRUE
  Disturbances = TRUE
INVARIANTS RecordIsAccepted
