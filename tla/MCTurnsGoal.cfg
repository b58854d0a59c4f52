CONSTANTS
  s1 = s1  s2 = s2  r1 = r1  r2 = r2  r3 = r3  r4 = r4  NoId = NoId
  Dispatcher = Dispatcher  GoalTask = GoalTask
  SessionIds = {s1}  RunIds = {r1, r2, r3}
  Reasons <- SomeReasons  Steering = "steer"
  Commands = {"send", "steer", "abort", "clear_queue"}  MaxCommands = 2  MaxReplans = 1  MayPanic = FALSE
SPECIFICATION FairSpec
PROPERTY PromptRunsOnce
PROPERTY DispatcherReturns
CHECK_DEADLOCK FALSE
