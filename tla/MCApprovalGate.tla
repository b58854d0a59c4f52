--------------------------- MODULE MCApprovalGate ---------------------------
(* Small sets of requests for ApprovalGate.                                *)
EXTENDS ApprovalGate, TLC

CONSTANTS r1, r2, readonly, destructive

ApprovalAndAsk == r1 :> "approval" @@ r2 :> "ask"
ApprovalAndSudo == r1 :> "approval" @@ r2 :> "sudo"
TwoApprovals == r1 :> "approval" @@ r2 :> "approval"
OneRisk == r1 :> destructive @@ r2 :> destructive
TwoRisks == r1 :> readonly @@ r2 :> destructive
=============================================================================
