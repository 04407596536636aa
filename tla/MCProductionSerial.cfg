CONSTANTS
  NumSteps = 3
  Flows <- MCFlows
  Items = {i1}
  Handlers = {h1}
  MaxAttempts = 2
  MaxFaults = 0
SPECIFICATION Spec
PROPERTY ImplementsWorkflow
