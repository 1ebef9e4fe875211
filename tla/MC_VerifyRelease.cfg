CONSTANTS
  GraphOrder <- AllStages
  GraphDeps <- StageDependencies
  GraphRun <- StageRun
  GraphScript <- StageScript
  GraphRank <- StageRank
  Outer = "release"
  JobChoices = {1, 2}
  MaxFailures = 1
  MaxEdits = 1
SPECIFICATION Spec
INVARIANTS PermitsAreSound Drained StagesAreOrdered PromotedIsVerified OutputsAddUp
CHECK_DEADLOCK FALSE
CONSTRAINTS OneMishap CommitsMatter
