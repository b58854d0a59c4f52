CONSTANTS
  a1 = a1  a2 = a2  n1 = n1  n2 = n2  None = None  Orchestrator = Orchestrator
  Agents = {a1, a2}  Names = {n1, n2}  NameOf <- OneName
  Asks = {q1, q2}  Boxes = {b1, b2}
  MaxMail = 1  MaxPending = 2  MaxSent = 2  MaxResets = 1
SPECIFICATION Spec
INVARIANT RunHasMailbox
CHECK_DEADLOCK FALSE
