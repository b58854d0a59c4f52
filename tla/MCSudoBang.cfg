CONSTANTS
  r1 = r1  r2 = r2  None = None  readonly = readonly  destructive = destructive
  Requests = {r1, r2}  KindOf <- ApprovalAndSudo  Inline = {r2}
  Risks = {readonly, destructive}  RiskOf <- OneRisk  MaxAborts = 0
SPECIFICATION AnsweringSpec
PROPERTY SudoAnswered
CHECK_DEADLOCK FALSE
