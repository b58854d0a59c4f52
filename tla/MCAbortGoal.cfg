CONSTANTS
  s1 = s1  s2 = s2  r1 = r1  r2 = r2  r3 = r3  r4 = r4  NoId = NoId
  Dispatcher = Dispatcher  GoalTask = GoalTask
  SessionIds = {s1, s2}  RunIds = {r1, r2, r3}
  Reasons <- SomeReasons  Steering = "steer"
  Commands = {"send", "abort"}  MaxCommands = 2  MaxReplans = 1  MayPanic = FALSE
SPECIFICATION Spec
INVARIANT StoppedLoopIsStopped
CHECK_DEADLOCK FALSE
