------------------------- MODULE VizDashboard_proofs -------------------------
(***************************************************************************)
(* Proofs about the `mgn viz` loop (cli/viz.py), for every set of         *)
(* clusters, every set of workspaces and every set of fault answers that  *)
(* carry no data.                                                          *)
(***************************************************************************)
EXTENDS VizDashboard, TLAPS

\* The workspaces panel of the shown layout is that of the layout's own
\* cluster list: the --cluster focus, or else the first listed cluster
\* (WsCluster), and "No clusters available" exactly when there is
\* neither.  The proof carries it because a layout is published whole.
WorkspacePanelMatchesClusters ==
  LET w == shown.workspaces IN
  /\ w.kind \in {"Error", "Empty", "Table"} =>
        /\ shown.clusters \in {"Empty", "Table"}
        /\ w.cluster = IF focus # NoValue THEN focus ELSE shown.listed[1]
  /\ (w.kind = "NoClusters") <=> (shown.clusters = "Empty" /\ focus = NoValue)

\* What Live shows is consistent: partial failure is isolated and the
\* workspaces panel belongs to the cluster list shown beside it.
ShownOK == PartialFailureIsolated /\ WorkspacePanelMatchesClusters

\* The layout of a refresh inside the health loop: the list succeeded, and
\* the rows so far are those of a proper prefix of the listed clusters.
HealthInv(b) ==
  /\ b.listOk = TRUE
  /\ b.clusters = "Table"
  /\ b.listed \in Seq(Clusters)
  /\ b.rows \in Seq([id : Clusters, status : RowStatus])
  /\ Len(b.rows) < Len(b.listed)
  /\ \A i \in 1..Len(b.rows) : b.rows[i].id = b.listed[i]

\* The layout of a refresh about to list workspaces: the clusters panel is
\* final, an empty list only gets here with --cluster given, and a table
\* has a first cluster and one row per listed cluster.
ReadyInv(b) ==
  /\ b.listOk = TRUE
  /\ b.clusters \in {"Empty", "Table"}
  /\ b.clusters = "Empty" => focus # NoValue
  /\ b.clusters = "Table" =>
       /\ b.listed \in Seq(Clusters)
       /\ Len(b.listed) >= 1
       /\ RowsCoverListing(b)

\* The inductive invariant: ShownOK holds because a layout is published
\* only from one of these states.
IInv ==
  /\ registry \in Seq(Clusters)
  /\ ShownOK
  /\ pc = "Health" => HealthInv(building)
  /\ pc = "Workspaces" => ReadyInv(building)

\* _request raises (kind # "Ok") only with no value.
LEMMA FailsNoValue ==
  ASSUME NEW m, NEW resp
  PROVE  Fails(Request(m, resp)) => Request(m, resp).val = NoValue
BY DEF Fails, Request, Raised, Returned

\* A cluster list a GET returns is None or the registry itself: the fault
\* answers carry no data.
LEMMA ListAnswer ==
  ASSUME NEW r \in ClusterListResponses
  PROVE  Request("GET", r).val \in {NoValue, registry}
<1>1. CASE r \in ClusterFaults
  <2>1. r.status \in Nat /\ r.body \in {"Empty", "Malformed"}
    BY <1>1, ClusterFaultsAssumption
  <2>2. QED
    BY <2>1 DEF Request, Raised, Returned
<1>2. CASE r = NoAnswer
  BY <1>2 DEF Request, Raised, NoAnswer, EmptyAnswer
<1>3. CASE r = Answer(200, registry)
  BY <1>3 DEF Request, Returned, Answer
<1>4. QED
  BY <1>1, <1>2, <1>3 DEF ClusterListResponses, Served

\* None is not the empty cluster list.
LEMMA NoValueNotEmpty == NoValue # << >>
<1>1. << >> \in Seq(Clusters)
  OBVIOUS
<1>2. QED
  BY <1>1, NoneNotListAssumption

LEMMA InitIInv == Init => IInv
<1> SUFFICES ASSUME Init PROVE IInv
  OBVIOUS
<1>1. registry \in Seq(Clusters) /\ pc = "Listing" /\ shown = Blank
  BY DEF Init, ClusterHostInit, VizInit
<1>2. ShownOK
  BY <1>1 DEF ShownOK, PartialFailureIsolated, RowsCoverListing,
             GivenUpOnlyOnListError, WorkspacePanelMatchesClusters, Blank
<1>3. QED
  BY <1>1, <1>2 DEF IInv

\* clients.clusters.list(): every outcome publishes a consistent layout or
\* hands the health loop (or the workspaces query) a layout that fits it.
LEMMA ListClustersIInv ==
  ASSUME IInv, ListClusters
  PROVE  IInv'
<1> PICK r \in ClusterListResponses :
      LET res == Request("GET", r)
          b0  == [Blank EXCEPT !.listOk = TRUE, !.clusters = "Table"]
      IN
      CASE Fails(res) \/ res.val = NoValue ->
             /\ Publish([Blank EXCEPT !.clusters = "Error",
                                      !.workspaces = WsPanel("Cannot")])
             /\ building' = Blank
        [] res.val = << >> /\ focus = NoValue ->
             /\ Publish([b0 EXCEPT !.clusters = "Empty",
                                   !.workspaces = WsPanel("NoClusters")])
             /\ building' = Blank
        [] res.val = << >> /\ focus # NoValue ->
             /\ building' = [b0 EXCEPT !.clusters = "Empty"]
             /\ pc' = "Workspaces"
             /\ UNCHANGED shown
        [] OTHER ->
             /\ building' = [b0 EXCEPT !.listed = res.val]
             /\ pc' = "Health"
             /\ UNCHANGED shown
  BY DEF ListClusters
<1> DEFINE res == Request("GET", r)
           b0  == [Blank EXCEPT !.listOk = TRUE, !.clusters = "Table"]
<1>a. registry' = registry /\ focus' = focus /\ registry \in Seq(Clusters)
  BY DEF ListClusters, clusterVars, IInv
<1>b. res.val \in {NoValue, registry}
  BY ListAnswer
<1>c. Fails(res) => res.val = NoValue
  BY FailsNoValue
<1>0. /\ registry' = registry /\ focus' = focus
      /\ res.val \in {NoValue, registry}
      /\ Fails(res) => res.val = NoValue
      /\ registry \in Seq(Clusters)
  BY <1>a, <1>b, <1>c
<1>1. CASE Fails(res) \/ res.val = NoValue
  <2>1. res.val # << >>
    BY <1>0, <1>1, NoValueNotEmpty
  <2>2. shown' = [Blank EXCEPT !.clusters = "Error", !.workspaces = WsPanel("Cannot")]
        /\ pc' = "Sleeping"
    BY <1>1, <2>1 DEF Publish
  <2>3. QED
    BY <1>0, <2>2 DEF IInv, ShownOK, PartialFailureIsolated, RowsCoverListing,
       GivenUpOnlyOnListError, WorkspacePanelMatchesClusters, Blank, WsPanel
<1>2. CASE ~(Fails(res) \/ res.val = NoValue) /\ res.val = << >> /\ focus = NoValue
  <2>1. shown' = [b0 EXCEPT !.clusters = "Empty", !.workspaces = WsPanel("NoClusters")]
        /\ pc' = "Sleeping"
    BY <1>2 DEF Publish
  <2>2. QED
    BY <1>0, <1>2, <2>1 DEF IInv, ShownOK, PartialFailureIsolated, RowsCoverListing,
       GivenUpOnlyOnListError, WorkspacePanelMatchesClusters, Blank, WsPanel
<1>3. CASE ~(Fails(res) \/ res.val = NoValue) /\ res.val = << >> /\ focus # NoValue
  <2>1. building' = [b0 EXCEPT !.clusters = "Empty"] /\ pc' = "Workspaces"
        /\ shown' = shown
    BY <1>3
  <2>2. ReadyInv(building)'
    BY <1>0, <1>3, <2>1 DEF ReadyInv, Blank
  <2>3. QED
    BY <1>0, <2>1, <2>2 DEF IInv, ShownOK, PartialFailureIsolated, RowsCoverListing,
       GivenUpOnlyOnListError, WorkspacePanelMatchesClusters
<1>4. CASE ~(Fails(res) \/ res.val = NoValue) /\ res.val # << >>
  <2>1. building' = [b0 EXCEPT !.listed = res.val] /\ pc' = "Health"
        /\ shown' = shown
    BY <1>4
  <2>2. res.val = registry /\ registry # << >>
    BY <1>0, <1>4
  <2>3. HealthInv(building)'
    BY <1>0, <2>1, <2>2 DEF HealthInv, Blank
  <2>4. QED
    BY <1>0, <2>1, <2>3 DEF IInv, ShownOK, PartialFailureIsolated, RowsCoverListing,
       GivenUpOnlyOnListError, WorkspacePanelMatchesClusters
<1>5. QED
  BY <1>1, <1>2, <1>3, <1>4

\* One health query appends the row of the next listed cluster, whatever
\* the answer; after the last one the clusters panel is final.
LEMMA CheckHealthIInv ==
  ASSUME IInv, CheckHealth
  PROVE  IInv'
<1> DEFINE i == Len(building.rows) + 1
           c == building.listed[i]
<1>1. HealthInv(building) /\ registry \in Seq(Clusters)
      /\ registry' = registry /\ focus' = focus /\ shown' = shown
  BY DEF CheckHealth, IInv, clusterVars
<1> PICK st \in RowStatus :
      /\ building' = [building EXCEPT !.rows = Append(@, [id |-> c, status |-> st])]
      /\ pc' = IF i = Len(building.listed) THEN "Workspaces" ELSE "Health"
  BY DEF CheckHealth, RowStatus
<1> DEFINE rows1 == Append(building.rows, [id |-> c, status |-> st])
<1>2. /\ i \in 1..Len(building.listed)
      /\ c \in Clusters
      /\ rows1 \in Seq([id : Clusters, status : RowStatus])
      /\ Len(rows1) = i
      /\ \A j \in 1..i : rows1[j].id = building.listed[j]
  BY <1>1 DEF HealthInv
<1>3. building'.listOk = TRUE /\ building'.clusters = "Table"
      /\ building'.listed = building.listed /\ building'.rows = rows1
  BY <1>1 DEF HealthInv
<1>4. CASE i = Len(building.listed)
  <2>1. pc' = "Workspaces"
    BY <1>4
  <2>2. ReadyInv(building)'
    BY <1>1, <1>2, <1>3, <1>4 DEF ReadyInv, RowsCoverListing, HealthInv
  <2>3. QED
    BY <1>1, <2>1, <2>2 DEF IInv, ShownOK, PartialFailureIsolated,
       RowsCoverListing, GivenUpOnlyOnListError, WorkspacePanelMatchesClusters
<1>5. CASE i # Len(building.listed)
  <2>1. pc' = "Health"
    BY <1>5
  <2>2. HealthInv(building)'
    BY <1>1, <1>2, <1>3, <1>5 DEF HealthInv
  <2>3. QED
    BY <1>1, <2>1, <2>2 DEF IInv, ShownOK, PartialFailureIsolated,
       RowsCoverListing, GivenUpOnlyOnListError, WorkspacePanelMatchesClusters
<1>6. QED
  BY <1>4, <1>5

\* client.workspaces(cluster_id).list(): the layout published carries the
\* panel of the cluster it was built for.
LEMMA ListWorkspacesIInv ==
  ASSUME IInv, ListWorkspaces
  PROVE  IInv'
<1>1. ReadyInv(building) /\ registry \in Seq(Clusters)
      /\ registry' = registry /\ focus' = focus /\ pc' = "Sleeping"
  BY DEF ListWorkspaces, IInv, clusterVars, Publish
<1> PICK kind \in {"Error", "Empty", "Table"} :
      \E names : shown' = [building EXCEPT !.workspaces =
                  [kind |-> kind, cluster |-> WsCluster(building), names |-> names]]
  <2> PICK r \in ServerListResponses(WsCluster(building)) :
        LET res == Request("GET", r)
            kind == CASE Fails(res) \/ res.val = NoValue -> "Error"
                      [] res.val = {}                    -> "Empty"
                      [] OTHER                           -> "Table"
            names == IF kind = "Table" THEN res.val ELSE {}
        IN shown' = [building EXCEPT !.workspaces =
                       [kind |-> kind, cluster |-> WsCluster(building), names |-> names]]
    BY DEF ListWorkspaces, Publish
  <2> DEFINE res == Request("GET", r)
             kind0 == CASE Fails(res) \/ res.val = NoValue -> "Error"
                        [] res.val = {}                    -> "Empty"
                        [] OTHER                           -> "Table"
  <2>1. kind0 \in {"Error", "Empty", "Table"}
    <3>1. CASE Fails(res) \/ res.val = NoValue
      BY <3>1, Zenon
    <3>2. CASE ~(Fails(res) \/ res.val = NoValue) /\ res.val = {}
      BY <3>2, Zenon
    <3>3. CASE ~(Fails(res) \/ res.val = NoValue) /\ res.val # {}
      BY <3>3, Zenon
    <3>4. QED
      BY <3>1, <3>2, <3>3
  <2> QED
    BY <2>1
<1>2. ShownOK'
  BY <1>1 DEF ShownOK, PartialFailureIsolated, RowsCoverListing,
     GivenUpOnlyOnListError, WorkspacePanelMatchesClusters, ReadyInv, WsCluster
<1>3. QED
  BY <1>1, <1>2 DEF IInv

\* The sleep, Ctrl-C, the other users' changes to the service, and
\* stuttering change no layout that the invariant is about.
LEMMA OtherStepsIInv ==
  ASSUME IInv, Wake \/ Interrupt \/ (ClusterHostNext /\ UNCHANGED vizVars)
                    \/ UNCHANGED vars
  PROVE  IInv'
<1>1. CASE Wake
  BY <1>1 DEF Wake, IInv, ShownOK, PartialFailureIsolated, RowsCoverListing,
     GivenUpOnlyOnListError, WorkspacePanelMatchesClusters, clusterVars,
     HealthInv, ReadyInv
<1>2. CASE Interrupt
  BY <1>2 DEF Interrupt, IInv, ShownOK, PartialFailureIsolated, RowsCoverListing,
     GivenUpOnlyOnListError, WorkspacePanelMatchesClusters, clusterVars,
     HealthInv, ReadyInv
<1>3. CASE ClusterHostNext /\ UNCHANGED vizVars
  <2>1. registry' \in Seq(Clusters)
    BY <1>3 DEF ClusterHostNext, Register, FlipReachable, ToggleServer,
       FlapService, IInv
  <2>2. QED
    BY <1>3, <2>1 DEF vizVars, IInv, ShownOK, PartialFailureIsolated,
       RowsCoverListing, GivenUpOnlyOnListError, WorkspacePanelMatchesClusters,
       HealthInv, ReadyInv
<1>4. CASE UNCHANGED vars
  BY <1>4 DEF vars, vizVars, clusterVars, IInv, ShownOK, PartialFailureIsolated,
     RowsCoverListing, GivenUpOnlyOnListError, WorkspacePanelMatchesClusters,
     HealthInv, ReadyInv
<1>5. QED
  BY <1>1, <1>2, <1>3, <1>4

\* In every behaviour of the viz loop, the layout Live shows has one row
\* per listed cluster in list order, a failed health query marking only
\* its own row, and gives up on the workspaces panel only when the
\* cluster list failed (cli/viz.py, the per-row try of generate_dashboard).
THEOREM PanelsConsistent == Spec => []PartialFailureIsolated
<1>1. Init => IInv
  BY InitIInv
<1>2. IInv /\ [Next]_vars => IInv'
  BY ListClustersIInv, CheckHealthIInv, ListWorkspacesIInv, OtherStepsIInv
  DEF Next, VizStep
<1>3. IInv => PartialFailureIsolated
  BY DEF IInv, ShownOK
<1>4. QED
  BY <1>1, <1>2, <1>3, PTL DEF Spec

====
