CONSTANTS
    t1 = t1  t2 = t2  t3 = t3
    Tasks = {t1, t2, t3}
    CEO = TRUE
    MaxRevisions = 1
    MaxIterations = 0
    Waves = 1
    Commands = {}
    Exits = {}
    MaxGoals = 2
    MaxCommands = 0
SPECIFICATION Spec
CHECK_DEADLOCK FALSE
PROPERTY OldDeployIsHarmless
