CONSTANTS
  NumSteps = 2
  Flows <- MCRunFlows
  Items = {}
  Handlers = {h1, h2}
  MaxAttempts = 2
  MaxFaults = 1
SPECIFICATION FairSpec
INVARIANTS NoBypass QcGate SubmissionAccounting
PROPERTY CompletionOpensNext
