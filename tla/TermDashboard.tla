---------------------------- MODULE TermDashboard ----------------------------
(***************************************************************************)
(* The standalone terminal dashboard (visualizer/dashboard.py).  main()   *)
(* builds a Dashboard and either prints one snapshot or runs the live     *)
(* loop: inside `with Live(layout, refresh_per_second=1)`, update_layout   *)
(* replaces the six panels of the shared layout one after the other and   *)
(* the loop sleeps, while rich's refresh thread renders that same layout  *)
(* once a second.                                                          *)
(*                                                                         *)
(* Each panel builder calls the client inside its own try.  The calls are *)
(* resolved against what api/client.py's Client really has: the methods   *)
(* workspaces and databases and the attributes clusters and health (a     *)
(* ClusterAPI and a HealthAPI object).                                    *)
(***************************************************************************)
EXTENDS Naturals, Sequences

VARIABLES
  mode,     \* "live", or "snapshot" for `--snapshot`
  up,       \* the service accepts connections
  running,  \* Dashboard.running
  pc,       \* "Init", "Update", "Sleep", "Print", "Exited" or "Stopped"
  i,        \* the next panel update_layout replaces
  layout,   \* the shared Layout: what each slot holds
  shown     \* the frame last drawn on the terminal (Undrawn before the first)

vars == <<mode, up, running, pc, i, layout, shown>>

\* update_layout's order of the slots.
Slots == <<"header", "health", "stats", "clusters", "workspaces", "footer">>

SlotSet == {Slots[j] : j \in 1..Len(Slots)}

\* What a slot can hold: the placeholder of create_layout, a static text
\* panel, a panel built from data, or an "Error: ..." panel or row.
PanelKinds == {"Placeholder", "Text", "Data", "Error"}

\* A slot of the terminal before anything is drawn.
Undrawn == "Undrawn"

\* Client's attributes (Client.__init__) and which of them are methods.
ClientAttrs == {"clusters", "health", "workspaces", "databases"}
ClientMethods == {"workspaces", "databases"}

\* Calling self.client.<name>(): an attribute Client lacks raises
\* AttributeError, one that is not a method raises TypeError.
Call(name) ==
  IF name \notin ClientAttrs THEN "AttributeError"
  ELSE IF name \notin ClientMethods THEN "TypeError"
  ELSE "Ok"

\* A builder's try: data when its first call works and the service answers.
Built(name) == IF Call(name) = "Ok" /\ up THEN "Data" ELSE "Error"

\* The panel update_layout puts in a slot: create_health_panel calls
\* client.health(); create_stats_panel, create_cluster_table and
\* create_workspace_table (cluster_id None) start with client.list_clusters().
Content(slot) ==
  CASE slot \in {"header", "footer"} -> "Text"
    [] slot = "health"               -> Built("health")
    [] OTHER                         -> Built("list_clusters")

Init ==
  /\ mode \in {"live", "snapshot"}
  /\ up \in BOOLEAN
  /\ running = FALSE
  /\ pc = "Init"
  /\ i = 1
  /\ layout = [s \in SlotSet |-> "Placeholder"]
  /\ shown = [s \in SlotSet |-> Undrawn]

\* run(): create_layout, running = True, enter Live (which draws the layout
\* as it is) and test `while self.running`; snapshot(): create_layout.
Start ==
  /\ pc = "Init"
  /\ IF mode = "live"
       THEN /\ running' = TRUE
            /\ pc' = "Update"
            /\ shown' = layout
       ELSE /\ pc' = "Update"
            /\ UNCHANGED <<running, shown>>
  /\ UNCHANGED <<mode, up, i, layout>>

\* Mutant: the loop over the slots one step too long.
UpdatePanelOneMore ==
  /\ pc = "Update"
  /\ layout' = [layout EXCEPT ![Slots[i]] = Content(Slots[i])]
  /\ IF i <= Len(Slots)
       THEN i' = i + 1 /\ UNCHANGED pc
       ELSE i' = 1 /\ pc' = IF mode = "live" THEN "Sleep" ELSE "Print"
  /\ UNCHANGED <<mode, up, running, shown>>

\* update_layout: one layout[...].update(...) call.  After the footer the
\* live loop sleeps and the snapshot prints.
UpdatePanel ==
  /\ pc = "Update"
  /\ layout' = [layout EXCEPT ![Slots[i]] = Content(Slots[i])]
  /\ IF i < Len(Slots)
       THEN i' = i + 1 /\ UNCHANGED pc
       ELSE i' = 1 /\ pc' = IF mode = "live" THEN "Sleep" ELSE "Print"
  /\ UNCHANGED <<mode, up, running, shown>>

\* time.sleep(refresh_interval) returns and `while self.running` is tested;
\* leaving the loop leaves the Live context.
Wake ==
  /\ pc = "Sleep"
  /\ pc' = IF running THEN "Update" ELSE "Exited"
  /\ UNCHANGED <<mode, up, running, i, layout, shown>>

\* Live's refresh thread draws the shared layout, whatever update_layout
\* has replaced so far.
Render ==
  /\ mode = "live"
  /\ pc \in {"Update", "Sleep"}
  /\ shown' = layout
  /\ UNCHANGED <<mode, up, running, pc, i, layout>>

\* snapshot(): console.print(layout).
SnapshotPrint ==
  /\ pc = "Print"
  /\ shown' = layout
  /\ pc' = "Stopped"
  /\ UNCHANGED <<mode, up, running, i, layout>>

\* Ctrl-C in the live loop: "Dashboard stopped", running = False.
Interrupt ==
  /\ mode = "live"
  /\ pc \in {"Update", "Sleep"}
  /\ pc' = "Stopped"
  /\ running' = FALSE
  /\ UNCHANGED <<mode, up, i, layout, shown>>

\* The service goes down or comes back.
Flap ==
  /\ up' = ~up
  /\ UNCHANGED <<mode, running, pc, i, layout, shown>>

DashboardStep == Start \/ UpdatePanel \/ Wake \/ SnapshotPrint

Next == DashboardStep \/ Render \/ Interrupt \/ Flap

\* Only safety is checked here: every builder fails before it makes a
\* request, so the loop has nothing that could stall, and no fairness is
\* assumed.
Spec == Init /\ [][Next]_vars

-----------------------------------------------------------------------------
TypeOK ==
  /\ mode \in {"live", "snapshot"}
  /\ up \in BOOLEAN
  /\ running \in BOOLEAN
  /\ pc \in {"Init", "Update", "Sleep", "Print", "Exited", "Stopped"}
  /\ i \in 1..Len(Slots)
  /\ layout \in [SlotSet -> PanelKinds]
  /\ shown \in [SlotSet -> PanelKinds \cup {Undrawn}]

(***************************************************************************)
(* Spec 4.5 and 5: the snapshot is replaced atomically and rendered only *)
(* after a full cycle, so no frame shows a placeholder.  Live           *)
(* draws the layout when the `with` is entered and once a second while    *)
(* update_layout replaces its panels one by one.                           *)
(***************************************************************************)
NoPartialFrame ==
  \A s \in SlotSet : shown[s] # "Placeholder"
====
