SPECIFICATION Spec
CONSTANTS
  Names <- MCNames
  Generations = 2
  Cases = {"two", "locked", "lanes", "paired"}
  Scenario <- MCScenario
  Plans <- MCPlans
  Limits <- MCLimits
  RunSizes = {3}
  Faulty = {"locked"}
INVARIANTS TypeOK ZeroExitMeansEverySchedulePassed FrontierIsAccounted ReductionIsHonest
CHECK_DEADLOCK FALSE
