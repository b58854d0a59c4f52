CONSTANTS
    t1 = t1  t2 = t2
    Tasks = {t1, t2}
    CEO = TRUE
    MaxRevisions = 1
    MaxIterations = 0
    Waves = 1
    Commands = {"approve", "revise", "cancel", "abort", "clear", "undo", "send", "steer"}
    Exits = {}
    MaxGoals = 1
    MaxCommands = 2
SPECIFICATION Spec
CHECK_DEADLOCK FALSE
INVARIANT TypeOK DeployIsWorking
PROPERTY OverIsOver GoalSettles
