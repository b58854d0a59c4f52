CONSTANTS
  r1 = r1  r2 = r2  None = None  readonly = readonly  destructive = destructive
  Requests = {r1, r2}  KindOf <- ApprovalAndSudo  Inline = {r2}
  Risks = {readonly, destructive}  RiskOf <- OneRisk  MaxAborts = 2
SPECIFICATION FairSpec
INVARIANT TypeOK
INVARIANT NoLateApproval
PROPERTY AbortEndsRequests
PROPERTY AnswerArrives
CHECK_DEADLOCK FALSE
