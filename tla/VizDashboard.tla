---------------------------- MODULE VizDashboard ----------------------------
(***************************************************************************)
(* The `mgn viz` command (cli/viz.py): a loop that builds a fresh layout  *)
(* with generate_dashboard, hands it to rich's Live with live.update,     *)
(* sleeps, and repeats until Ctrl-C.  generate_dashboard lists the        *)
(* clusters, queries the health of each listed cluster in list order      *)
(* (each in its own try), then lists the workspaces of the focus cluster  *)
(* or of the first listed one.  Every request is a step of its own: the   *)
(* service changes between them.  The layout being built is local to the *)
(* call, so what Live shows is always a layout some call finished.        *)
(***************************************************************************)
EXTENDS Naturals, Sequences, HostClusters, ApiClient

VARIABLES
  focus,     \* the --cluster option, or NoValue when it is not given
  pc,        \* "Listing", "Health", "Workspaces", "Sleeping" or "Stopped"
  building,  \* the layout generate_dashboard is filling in
  shown      \* the layout Live displays (Blank before the first update)

vizVars == <<focus, pc, building, shown>>
vars == <<clusterVars, vizVars>>

Blank == [listOk |-> FALSE, listed |-> << >>, rows |-> << >>, clusters |-> "Blank",
          workspaces |-> [kind |-> "Blank", cluster |-> NoValue, names |-> {}]]

RowStatus == {"Healthy", "Unhealthy", "Unknown"}
ClusterPanels == {"Blank", "Error", "Empty", "Table"}
WorkspacePanels == {"Blank", "Cannot", "NoClusters", "Error", "Empty", "Table"}

Layouts == [listOk : BOOLEAN,
            listed : Seq(Clusters),
            rows : Seq([id : Clusters, status : RowStatus]),
            clusters : ClusterPanels,
            workspaces : [kind : WorkspacePanels,
                          cluster : Clusters \cup {NoValue},
                          names : SUBSET Servers]]

\* What generate_dashboard shows for the workspaces panel when it cannot or
\* need not query: after a failed cluster list, or with no cluster at all.
WsPanel(kind) == [kind |-> kind, cluster |-> NoValue, names |-> {}]

\* The cluster whose workspaces are listed: --cluster, else the first listed.
WsCluster(b) == IF focus # NoValue THEN focus ELSE b.listed[1]

\* generate_dashboard returns b and the loop passes it to live.update.
Publish(b) ==
  /\ shown' = b
  /\ pc' = "Sleeping"

VizInit ==
  /\ focus \in Clusters \cup {NoValue}
  /\ pc = "Listing"
  /\ building = Blank
  /\ shown = Blank

\* Mutant: an empty-body answer (None) is taken as the cluster list.
ListClustersNoneUnchecked ==
  /\ pc = "Listing"
  /\ \E r \in ClusterListResponses :
       LET res == Request("GET", r)
           b0  == [Blank EXCEPT !.listOk = TRUE, !.clusters = "Table"]
       IN
       CASE Fails(res) ->
              /\ Publish([Blank EXCEPT !.clusters = "Error",
                                       !.workspaces = WsPanel("Cannot")])
              /\ building' = Blank
         [] res.val = << >> /\ focus = NoValue ->
              /\ Publish([b0 EXCEPT !.clusters = "Empty",
                                    !.workspaces = WsPanel("NoClusters")])
              /\ building' = Blank
         [] res.val = << >> /\ focus # NoValue ->
              /\ building' = [b0 EXCEPT !.clusters = "Empty"]
              /\ pc' = "Workspaces"
              /\ UNCHANGED shown
         [] OTHER ->
              /\ building' = [b0 EXCEPT !.listed = res.val]
              /\ pc' = "Health"
              /\ UNCHANGED shown
  /\ UNCHANGED <<focus, clusterVars>>

\* Mutant: the request has no timeout and hangs while the service is down.
ListClustersWithoutTimeout ==
  /\ pc = "Listing"
  /\ svcUp
  /\ \E r \in ClusterListResponses :
       LET res == Request("GET", r)
           b0  == [Blank EXCEPT !.listOk = TRUE, !.clusters = "Table"]
       IN
       CASE Fails(res) \/ res.val = NoValue ->
              /\ Publish([Blank EXCEPT !.clusters = "Error",
                                       !.workspaces = WsPanel("Cannot")])
              /\ building' = Blank
         [] res.val = << >> /\ focus = NoValue ->
              /\ Publish([b0 EXCEPT !.clusters = "Empty",
                                    !.workspaces = WsPanel("NoClusters")])
              /\ building' = Blank
         [] res.val = << >> /\ focus # NoValue ->
              /\ building' = [b0 EXCEPT !.clusters = "Empty"]
              /\ pc' = "Workspaces"
              /\ UNCHANGED shown
         [] OTHER ->
              /\ building' = [b0 EXCEPT !.listed = res.val]
              /\ pc' = "Health"
              /\ UNCHANGED shown
  /\ UNCHANGED <<focus, clusterVars>>

(***************************************************************************)
(* clients.clusters.list(): on any exception (or a None response, whose  *)
(* .get raises) the clusters panel shows the error and the workspaces    *)
(* panel is not queried; an empty list shows the hint panel; otherwise   *)
(* the health loop starts.                                               *)
(***************************************************************************)
ListClusters ==
  /\ pc = "Listing"
  /\ \E r \in ClusterListResponses :
       LET res == Request("GET", r)
           b0  == [Blank EXCEPT !.listOk = TRUE, !.clusters = "Table"]
       IN
       CASE Fails(res) \/ res.val = NoValue ->
              /\ Publish([Blank EXCEPT !.clusters = "Error",
                                       !.workspaces = WsPanel("Cannot")])
              /\ building' = Blank
         [] res.val = << >> /\ focus = NoValue ->
              /\ Publish([b0 EXCEPT !.clusters = "Empty",
                                    !.workspaces = WsPanel("NoClusters")])
              /\ building' = Blank
         [] res.val = << >> /\ focus # NoValue ->
              /\ building' = [b0 EXCEPT !.clusters = "Empty"]
              /\ pc' = "Workspaces"
              /\ UNCHANGED shown
         [] OTHER ->
              /\ building' = [b0 EXCEPT !.listed = res.val]
              /\ pc' = "Health"
              /\ UNCHANGED shown
  /\ UNCHANGED <<focus, clusterVars>>

\* Mutant: the health query is not in a try of its own; its exception
\* reaches the panel's handler, which shows the error for the whole list.
CheckHealthUnguarded ==
  /\ pc = "Health"
  /\ LET i == Len(building.rows) + 1
         c == building.listed[i]
     IN \E r \in HealthResponses(c) :
          LET res == Request("GET", r) IN
          IF Fails(res) \/ res.val = NoValue
            THEN /\ Publish([building EXCEPT !.clusters = "Error",
                                            !.workspaces = WsPanel("Cannot")])
                 /\ building' = Blank
            ELSE /\ building' = [building EXCEPT !.rows = Append(@,
                        [id |-> c, status |-> IF res.val THEN "Healthy" ELSE "Unhealthy"])]
                 /\ pc' = IF i = Len(building.listed) THEN "Workspaces" ELSE "Health"
                 /\ UNCHANGED shown
  /\ UNCHANGED <<focus, clusterVars>>

(***************************************************************************)
(* One iteration of `for c in clusters`: client.health.cluster(id); an    *)
(* exception, or a None health, marks only this row "? Unknown".          *)
(***************************************************************************)
CheckHealth ==
  /\ pc = "Health"
  /\ LET i == Len(building.rows) + 1
         c == building.listed[i]
     IN \E r \in HealthResponses(c) :
          LET res == Request("GET", r)
              st  == IF Fails(res) \/ res.val = NoValue THEN "Unknown"
                     ELSE IF res.val THEN "Healthy" ELSE "Unhealthy"
          IN
          /\ building' = [building EXCEPT !.rows = Append(@, [id |-> c, status |-> st])]
          /\ pc' = IF i = Len(building.listed) THEN "Workspaces" ELSE "Health"
  /\ UNCHANGED <<focus, shown, clusterVars>>

(***************************************************************************)
(* client.workspaces(cluster_id).list() for the chosen cluster, inside    *)
(* the try of the workspaces panel; then the layout is complete.          *)
(***************************************************************************)
ListWorkspaces ==
  /\ pc = "Workspaces"
  /\ LET c == WsCluster(building) IN
     \E r \in ServerListResponses(c) :
       LET res == Request("GET", r)
           kind == CASE Fails(res) \/ res.val = NoValue -> "Error"
                     [] res.val = {}                    -> "Empty"
                     [] OTHER                           -> "Table"
           names == IF kind = "Table" THEN res.val ELSE {}
       IN
       /\ Publish([building EXCEPT !.workspaces =
                     [kind |-> kind, cluster |-> c, names |-> names]])
       /\ building' = Blank
  /\ UNCHANGED <<focus, clusterVars>>

\* time.sleep(refresh) returns.
Wake ==
  /\ pc = "Sleeping"
  /\ pc' = "Listing"
  /\ UNCHANGED <<focus, building, shown, clusterVars>>

\* Ctrl-C: KeyboardInterrupt is not an Exception, so no panel's handler
\* catches it; it leaves the loop wherever it is and the half-built layout
\* is dropped.  Live keeps the last layout it was given.
Interrupt ==
  /\ pc # "Stopped"
  /\ pc' = "Stopped"
  /\ building' = Blank
  /\ UNCHANGED <<focus, shown, clusterVars>>

VizStep == ListClusters \/ CheckHealth \/ ListWorkspaces \/ Wake

Init == ClusterHostInit /\ VizInit

Next ==
  \/ VizStep
  \/ Interrupt
  \/ ClusterHostNext /\ UNCHANGED vizVars

\* Every request ends within the client's timeout and every sleep ends, so
\* the loop's own steps are weakly fair.  Ctrl-C is the user's choice.
Spec == Init /\ [][Next]_vars /\ WF_vars(VizStep)

-----------------------------------------------------------------------------
TypeOK ==
  /\ ClusterHostTypeOK
  /\ focus \in Clusters \cup {NoValue}
  /\ pc \in {"Listing", "Health", "Workspaces", "Sleeping", "Stopped"}
  /\ building \in Layouts
  /\ shown \in Layouts

(***************************************************************************)
(* Partial failure is isolated (spec section 4.5 and property 9): in the  *)
(* layout Live shows, a cluster list that succeeded yields one row per    *)
(* listed cluster, in list order, whatever happened to the health queries *)
(* in between; the clusters panel shows an error, and the workspaces      *)
(* panel is given up ("Cannot load"), only when the list itself failed.   *)
(***************************************************************************)
RowsCoverListing(b) ==
  b.clusters = "Table" =>
    /\ Len(b.rows) = Len(b.listed)
    /\ \A i \in 1..Len(b.rows) : b.rows[i].id = b.listed[i]

GivenUpOnlyOnListError(b) ==
  b.clusters # "Blank" =>
    /\ (b.clusters = "Error") <=> ~b.listOk
    /\ (b.workspaces.kind = "Cannot") <=> ~b.listOk

PartialFailureIsolated ==
  RowsCoverListing(shown) /\ GivenUpOnlyOnListError(shown)

\* Every refresh that starts ends: the loop gets back to its sleep (or stops).
RefreshCompletes ==
  pc \in {"Listing", "Health", "Workspaces"} ~> pc \in {"Sleeping", "Stopped"}

=============================================================================
