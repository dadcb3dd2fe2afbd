SPECIFICATION Spec
CONSTANTS
  Unreliable = TRUE
  Results = {"passed", "violation", "actor-error", "harness-error"}
  Messages = 3
INVARIANTS TypeOK CleanupIsHonest ResultIsHonest ExitIsHonest
PROPERTIES NothingForeignTouched TornDownInOrder Ends
CHECK_DEADLOCK FALSE
