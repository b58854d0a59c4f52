CONSTANTS
  s1 = s1  s2 = s2  r1 = r1  r2 = r2  r3 = r3  r4 = r4  NoId = NoId
  Dispatcher = Dispatcher  GoalTask = GoalTask
  SessionIds = {s1, s2}  RunIds = {r1, r2, r3}
  Reasons <- SomeReasons  Steering = "steer"
  Commands = {"send", "steer"}  MaxCommands = 3  MaxReplans = 0  MayPanic = FALSE
SPECIFICATION Spec
INVARIANT IdleMeansFree
CHECK_DEADLOCK FALSE
