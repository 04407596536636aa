CONSTANTS
  Users = {"ann", "bob", "cid"}
  Creator = "ann"
  Managers = {}
  Keys = {"hello"}
  SenderOf <- MCSenderOf
  MentionsOf <- MCMentionsOf
  Handlers = {h1, h2}
  MaxAssignments = 2
  MaxFaults = 1
SPECIFICATION Spec
SYMMETRY MCSymmetry
CHECK_DEADLOCK FALSE
INVARIANTS AssigneesAreMembers AssigneesAreTold AnnouncedOnce EveryoneIsTold
