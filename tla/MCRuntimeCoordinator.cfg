CONSTANTS
  SessionIds = {s1, s2}
  RunIds = {r1, r2}
  WorkIds = {w1, w2, w3}
  Reasons = {steering, abort}
  Steering = steering
  NoId = NoId
SYMMETRY Symmetry
SPECIFICATION Spec
INVARIANTS
  TypeOK
  LiveTurnIsActive
  NoOrphanWork
  RecordedRunIsOver
PROPERTIES
  StaleFinisherKeepsSlot
  ImplementsOwnership
CHECK_DEADLOCK FALSE
