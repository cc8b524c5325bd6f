CONSTANTS
  NoValue = NoValue
  Workspaces = {w1}
  Target = w1
  MaxPolls = 3
  FaultResponses <- MCFaultResponses
SPECIFICATION Spec
INVARIANT TransportErrorNotFatal
