CONSTANTS
    Steps <- FourSteps
    Plans <- EveryPlan
    ModelOf <- TwoModels
    ModelCap <- OneLarge
    GlobalCap = 2
    Validated = TRUE
SPECIFICATION Spec
CHECK_DEADLOCK FALSE
INVARIANT TypeOK DependenciesDone NothingForgotten NoWorkerLeft
PROPERTY KeepsGraph DeployEnds
