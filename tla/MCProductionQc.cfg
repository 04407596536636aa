CONSTANTS
  NumSteps = 1
  Flows <- MCUnreviewed
  Items = {}
  Handlers = {h1, h2}
  MaxAttempts = 1
  MaxFaults = 0
SPECIFICATION Spec
PROPERTY QcAfterAllSteps
