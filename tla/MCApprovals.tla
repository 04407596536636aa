----------------------------- MODULE MCApprovals -----------------------------
EXTENDS Approvals, TLC

\* Two reviewers share the first role, one of them also holds the second.
MCRolesOf == [a \in Approvers |-> IF a = "ann" THEN {"lead"} ELSE {"lead", "boss"}]

\* What the policy editor sends: steps numbered 1..n, or no policy at all.
MCPolicies == {
  << >>,
  (1 :> "lead"),
  (1 :> "lead") @@ (2 :> "boss"),
  (1 :> "boss") @@ (2 :> "lead") @@ (3 :> "boss")}
=============================================================================
