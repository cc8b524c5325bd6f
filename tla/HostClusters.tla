---------------------------- MODULE HostClusters ----------------------------
(***************************************************************************)
(* The cluster registry of the external Host App, as the dashboard sees   *)
(* it: the registered clusters in the order the list endpoint returns     *)
(* them, whether each cluster's Kubernetes API is reachable (the          *)
(* k8sReachable field of its health), the workspaces ("servers") each     *)
(* cluster runs, and whether the service is reachable at all.  Other     *)
(* users bootstrap clusters and start or stop workspaces at any time.     *)
(***************************************************************************)
EXTENDS Naturals, Sequences, FiniteSets, Http

CONSTANTS
  Clusters,        \* cluster ids
  Servers,         \* workspace names
  ClusterFaults    \* answers any request may get instead of the normal one

VARIABLES
  registry,   \* the registered clusters, in list order, without repetition
  reachable,  \* reachable[c]: health of c reports k8sReachable
  servers,    \* servers[c]: the workspaces of cluster c
  svcUp       \* the service accepts connections

clusterVars == <<registry, reachable, servers, svcUp>>

\* The answers a fault produces carry no data (an empty or a non-JSON
\* body), and None is not a cluster list.
ASSUME ClusterFaultsAssumption ==
  \A f \in ClusterFaults : f.status \in Nat /\ f.body \in {"Empty", "Malformed"}

ASSUME NoneNotListAssumption == NoValue \notin Seq(Clusters)

Registered == {registry[i] : i \in 1..Len(registry)}

ClusterHostTypeOK ==
  /\ registry \in Seq(Clusters)
  /\ reachable \in [Clusters -> BOOLEAN]
  /\ servers \in [Clusters -> SUBSET Servers]
  /\ svcUp \in BOOLEAN

ClusterHostInit ==
  /\ registry = << >>
  /\ reachable \in [Clusters -> BOOLEAN]
  /\ servers = [c \in Clusters |-> {}]
  /\ svcUp \in BOOLEAN

\* POST /bootstrap by some user: the cluster is appended to the registry.
Register(c) ==
  /\ c \notin Registered
  /\ registry' = Append(registry, c)
  /\ UNCHANGED <<reachable, servers, svcUp>>

\* The Kubernetes API of cluster c becomes reachable or unreachable.
FlipReachable(c) ==
  /\ reachable' = [reachable EXCEPT ![c] = ~@]
  /\ UNCHANGED <<registry, servers, svcUp>>

\* A workspace is started on, or removed from, a registered cluster.
ToggleServer(c, s) ==
  /\ c \in Registered
  /\ servers' = [servers EXCEPT ![c] = IF s \in @ THEN @ \ {s} ELSE @ \cup {s}]
  /\ UNCHANGED <<registry, reachable, svcUp>>

FlapService ==
  /\ svcUp' = ~svcUp
  /\ UNCHANGED <<registry, reachable, servers>>

ClusterHostNext ==
  \/ \E c \in Clusters : Register(c) \/ FlipReachable(c)
  \/ \E c \in Clusters, s \in Servers : ToggleServer(c, s)
  \/ FlapService

\* The answers of GET /api/deploy/clusters, of GET /api/cluster/{c}/health
\* and of GET /api/cluster/{c}/servers in the current state.
Served(normal) == IF svcUp THEN {normal} \cup ClusterFaults ELSE {NoAnswer}

ClusterListResponses == Served(Answer(200, registry))
HealthResponses(c)   == Served(IF c \in Registered THEN Answer(200, reachable[c])
                                                   ELSE EmptyAnswer(404))
ServerListResponses(c) == Served(IF c \in Registered THEN Answer(200, servers[c])
                                                     ELSE EmptyAnswer(404))

=============================================================================
