SPECIFICATION FairSpec
CONSTANTS
  NTasks = 2
  Priority <- MCPriority
  Concurrency <- MCConcurrency
  DynamicTasks <- MCDynamic
  MaxIndex = 2
  MaxConcurrentJobs = 1
  AgeCap = 2
  MaxScalings = 2
  CronTasks = {c1}
INVARIANTS
  SlotAccounting
  WorkConserving
  StopWaitsForAll
  CountsBracketed
PROPERTIES
  NothingStartsAfterStop
  ReplacementsWait
  WorkIsTaken
  NoStarvation
  ScalingConverges
  StopCompletes
CHECK_DEADLOCK FALSE
