CONSTANTS
  NoValue = NoValue
  Clusters = {c1, c2}
  Servers = {s1}
  ClusterFaults <- MCClusterFaults
SPECIFICATION Spec
INVARIANTS
  TypeOK
  PartialFailureIsolated
PROPERTIES
  RefreshCompletes
