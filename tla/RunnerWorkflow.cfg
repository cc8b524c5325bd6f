CONSTANTS
  NoValue = NoValue
  Workspaces = {w1, w2}
  FaultResponses = {}
  Users <- MCUsers
  JobFaults <- MCJobFaults
  Configs <- MCConfigs
  Workflows = {"full", "example"}
SPECIFICATION Spec
INVARIANTS
  TypeOK
  StepsInOrder
  ExamplesBacked
PROPERTIES
  WorkflowEnds
