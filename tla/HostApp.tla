------------------------------ MODULE HostApp ------------------------------
(***************************************************************************)
(* The external orchestration service the tools talk to (the "Host App"). *)
(* It is not part of this repository; it is the environment of every     *)
(* client-side module.  Its state is what the client can observe: the     *)
(* status of each workspace of one cluster and whether the service is     *)
(* reachable at all.  Workspaces are created and removed by other users   *)
(* of the service and move through the statuses the client tests for.    *)
(***************************************************************************)
EXTENDS Naturals, Http

CONSTANTS
  Workspaces,      \* names of the workspaces of the cluster
  FaultResponses   \* answers the service may give to any request instead
                   \* of the normal one (5xx, 401, empty or bad bodies)

VARIABLES
  ws,     \* ws[n]: status of workspace n, or Absent
  up      \* the service accepts connections

hostVars == <<ws, up>>

Absent == "Absent"
WsStatus == {"Pending", "Running", "Failed"}

\* The answers the service gives to a GET of a workspace.
HostResponses == [status : Nat, body : BodyKinds, data : WsStatus \cup {NoValue}]

ASSUME FaultsAssumption == FaultResponses \subseteq HostResponses

\* None is not a workspace status.
ASSUME NoneAssumption == NoValue \notin WsStatus

HostTypeOK ==
  /\ ws \in [Workspaces -> WsStatus \cup {Absent}]
  /\ up \in BOOLEAN

HostInit ==
  /\ ws \in [Workspaces -> WsStatus \cup {Absent}]
  /\ up \in BOOLEAN

\* Another user creates workspace n; it starts Pending.
Create(n) ==
  /\ ws[n] = Absent
  /\ ws' = [ws EXCEPT ![n] = "Pending"]
  /\ UNCHANGED up

\* The orchestrator schedules a pending workspace: it runs or fails.
Schedule(n) ==
  /\ ws[n] = "Pending"
  /\ \E s \in {"Running", "Failed"} : ws' = [ws EXCEPT ![n] = s]
  /\ UNCHANGED up

\* A running workspace crashes.
Crash(n) ==
  /\ ws[n] = "Running"
  /\ ws' = [ws EXCEPT ![n] = "Failed"]
  /\ UNCHANGED up

\* Another user deletes workspace n.
Remove(n) ==
  /\ ws[n] # Absent
  /\ ws' = [ws EXCEPT ![n] = Absent]
  /\ UNCHANGED up

\* The service goes down or comes back (restart, network partition).
Flap ==
  /\ up' = ~up
  /\ UNCHANGED ws

HostNext ==
  \/ \E n \in Workspaces : Create(n) \/ Schedule(n) \/ Crash(n) \/ Remove(n)
  \/ Flap

\* The answers a GET of workspace n can receive in the current state.
WorkspaceResponses(n) ==
  IF ~up THEN {NoAnswer}
  ELSE {IF ws[n] = Absent THEN EmptyAnswer(404) ELSE Answer(200, ws[n])}
       \cup FaultResponses

=============================================================================
