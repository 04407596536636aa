CONSTANTS
  Submissions = {s1}
  Approvers = {"ann", "bob"}
  Roles = {"lead", "boss"}
  RolesOf <- MCRolesOf
  MaxOrder = 3
  Policies <- MCPolicies
  Verdicts = {"APPROVED", "REJECTED"}
  Reasons = {TRUE, FALSE}
  MaxVersions = 2
  MaxInFlight = 2
  MaxFaults = 1
SPECIFICATION Spec
CHECK_DEADLOCK FALSE
INVARIANTS ReachedInOrder ApprovedIsEarned DueRoleIsNotified StuckIsExplained
