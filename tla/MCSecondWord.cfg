CONSTANTS
  r1 = r1  r2 = r2  None = None  readonly = readonly  destructive = destructive
  Requests = {r1, r2}  KindOf <- TwoApprovals  Inline = {}
  Risks = {readonly, destructive}  RiskOf <- TwoRisks  MaxAborts = 0
SPECIFICATION Spec
INVARIANT EscalatedWasGranted
CHECK_DEADLOCK FALSE
