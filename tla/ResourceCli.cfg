CONSTANTS
  NoValue = NoValue
  Workspaces = {w1}
  FaultResponses <- MCFaults
  ClusterIds = {c1, c2}
  DbIds = {d1}
  MaxRows = 2
SPECIFICATION Spec
INVARIANTS TypeOK SuccessMeansPerformed
