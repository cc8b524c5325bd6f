CONSTANTS
  NoValue = NoValue
  Workspaces = {w1}
  Target = w1
  MaxWait = 10
  Interval = 5
  FaultResponses <- MCFaultResponses
SPECIFICATION Spec
INVARIANT NoPollAfterFailed
