SPECIFICATION RecordingSpecWithDeadline
CONSTANTS
  Names <- TwoActors
  Generations = 2
  Multi = TRUE
  Pairs = TRUE
  Plans <- SomePlans
  Locks = {}
  Commands = {"plain"}
  MaxSteps = 3
  MaxCommands = 1
  MaxCancels = 0
  Interrupts = TRUE
  Failures = TRUE
  Rejections = TRUE
  Closes = FALSE
  Abandons = TRUE
  Disturbances = TRUE
INVARIANTS TypeOK OutcomeIsHonest PlanFollowed RecordIsAccepted
PROPERTIES Terminates
